---- MODULE Spec2Model ----
(***************************************************************************)
(* UPS Monitor (src-tauri/src/lib.rs): the telemetry acquisition and       *)
(* safety-response engine.  The shared AppState, the poll loop, the        *)
(* battery/AC state machine, the alert dispatcher, the shutdown scheduler  *)
(* and the sound generation counter, as a state machine.                   *)
(*                                                                         *)
(* Time is counted in whole minutes (now_millis() / 60000): every delay    *)
(* the scheduler handles is a whole number of minutes.                     *)
(***************************************************************************)
EXTENDS Integers, Sequences, FiniteSets, TLC

(***************************************************************************)
(* Bounds of the model.                                                    *)
(***************************************************************************)
\* the clock stops advancing at MaxNow minutes
MaxNow == 1
\* operations that bump sound_generation are disabled once it reaches MaxGen
MaxGen == 2
\* with playback tasks running, those operations are disabled once it reaches MaxTokens
MaxTokens == 3
\* the ghost run-length counter of consecutive utilityFail snapshots saturates here
MaxRun == 2
\* the history scenario adds at most MaxWrites entries to each history list
MaxWrites == 3
\* battery voltages from 0 to MaxTenths tenths of a volt are decoded
MaxTenths == 300
\* the popup scenario's clock advances at most MaxPopupTicks times
MaxPopupTicks == 3

(***************************************************************************)
(* Program constants.                                                      *)
(***************************************************************************)
BATTERY_LOW_SHUTDOWN_DELAY_MINUTES == 5
BATTERY_CRITICAL_SHUTDOWN_DELAY_MINUTES == 1
MAX_EVENTS == 1000
MAX_DATA_POINTS == 5000
\* schedule_shutdown_after_minutes: delay_minutes.max(1).min(120)
MinDelayMinutes == 1
MaxDelayMinutes == 120
\* play_sound_with_generation: repeats.max(1).min(30)
MaxLoopCount == 30

Min(a, b) == IF a <= b THEN a ELSE b
Max(a, b) == IF a >= b THEN a ELSE b

\* Option<T>: None is the empty sequence, Some(v) the one-element sequence.
None == << >>
Some(v) == << v >>
IsSome(o) == Len(o) = 1
Get(o) == o[1]

(***************************************************************************)
(* AppSettings                                                             *)
(***************************************************************************)
clamp_u64(value, min, max, fallback) ==
    IF value = 0 THEN fallback ELSE Min(Max(value, min), max)

DefaultSettings ==
    [ monitor_only_mode |-> FALSE,
      polling_interval |-> 1000,
      enable_notifications |-> TRUE,
      alerts |-> [ ac_fault |-> [play_sound |-> TRUE, show_popup |-> TRUE, sound_repeats |-> 3],
                   battery_low |-> [play_sound |-> TRUE, show_popup |-> TRUE, sound_repeats |-> 5],
                   battery_critical |-> [play_sound |-> TRUE, show_popup |-> TRUE, sound_repeats |-> 10] ],
      shutdown_pc |-> [ on_ac_fault |-> [enabled |-> TRUE, delay_minutes |-> 18],
                        on_battery_low |-> [enabled |-> FALSE],
                        on_battery_critical |-> [enabled |-> TRUE],
                        auto_save_files |-> TRUE,
                        shutdown_command |-> "",
                        action |-> "shutdown" ],
      ups_control |-> [shutdown_ups_after_pc |-> TRUE, ups_shutdown_delay |-> 2],
      save_history |-> TRUE,
      history_interval |-> 300,
      low_battery_threshold |-> 20,
      critical_battery_threshold |-> 10,
      custom_sounds_path |-> None ]

BadApplyMonitorOnlyDefaults(st) ==
    [st EXCEPT !.enable_notifications = FALSE,
               !.alerts.ac_fault.play_sound = FALSE,
               !.alerts.ac_fault.show_popup = FALSE,
               !.alerts.battery_low.play_sound = FALSE,
               !.alerts.battery_low.show_popup = FALSE,
               !.alerts.battery_critical.play_sound = FALSE,
               !.alerts.battery_critical.show_popup = FALSE,
               !.shutdown_pc.on_ac_fault.enabled = FALSE,
               !.shutdown_pc.on_battery_low.enabled = FALSE,
               !.shutdown_pc.on_battery_critical.enabled = FALSE,
               !.shutdown_pc.auto_save_files = FALSE,
               !.shutdown_pc.shutdown_command = "",
               !.ups_control.shutdown_ups_after_pc = FALSE]
apply_monitor_only_defaults(st) ==
    [st EXCEPT !.enable_notifications = FALSE,
               !.alerts.ac_fault.play_sound = FALSE,
               !.alerts.ac_fault.show_popup = FALSE,
               !.alerts.battery_low.play_sound = FALSE,
               !.alerts.battery_low.show_popup = FALSE,
               !.alerts.battery_critical.play_sound = FALSE,
               !.alerts.battery_critical.show_popup = FALSE,
               !.shutdown_pc.on_ac_fault.enabled = FALSE,
               !.shutdown_pc.on_battery_low.enabled = FALSE,
               !.shutdown_pc.on_battery_critical.enabled = FALSE,
               !.shutdown_pc.auto_save_files = FALSE,
               !.shutdown_pc.shutdown_command = "",
               !.ups_control.shutdown_ups_after_pc = FALSE,
               !.save_history = FALSE]

BadNormalize(st) ==
    LET low == clamp_u64(st.low_battery_threshold, 5, 50, 20)
        n1 == [st EXCEPT
                 !.polling_interval = clamp_u64(@, 500, 10000, 1000),
                 !.history_interval = clamp_u64(@, 60, 3600, 300),
                 !.low_battery_threshold = low,
                 !.critical_battery_threshold = clamp_u64(@, 5, 30, 10),
                 !.alerts.ac_fault.sound_repeats = clamp_u64(@, 1, 30, 3),
                 !.alerts.battery_low.sound_repeats = clamp_u64(@, 1, 30, 5),
                 !.alerts.battery_critical.sound_repeats = clamp_u64(@, 1, 30, 10),
                 !.shutdown_pc.on_ac_fault.delay_minutes = clamp_u64(@, 1, 60, 18),
                 !.ups_control.ups_shutdown_delay = clamp_u64(@, 1, 10, 2),
                 !.shutdown_pc.action =
                     IF @ # "shutdown" /\ @ # "sleep" THEN "shutdown" ELSE @]
    IN IF n1.monitor_only_mode THEN apply_monitor_only_defaults(n1) ELSE n1
normalize(st) ==
    LET low == clamp_u64(st.low_battery_threshold, 5, 50, 20)
        n1 == [st EXCEPT
                 !.polling_interval = clamp_u64(@, 500, 10000, 1000),
                 !.history_interval = clamp_u64(@, 60, 3600, 300),
                 !.low_battery_threshold = low,
                 !.critical_battery_threshold = Min(clamp_u64(@, 5, 30, 10), low),
                 !.alerts.ac_fault.sound_repeats = clamp_u64(@, 1, 30, 3),
                 !.alerts.battery_low.sound_repeats = clamp_u64(@, 1, 30, 5),
                 !.alerts.battery_critical.sound_repeats = clamp_u64(@, 1, 30, 10),
                 !.shutdown_pc.on_ac_fault.delay_minutes = clamp_u64(@, 1, 60, 18),
                 !.ups_control.ups_shutdown_delay = clamp_u64(@, 1, 10, 2),
                 !.shutdown_pc.action =
                     IF @ # "shutdown" /\ @ # "sleep" THEN "shutdown" ELSE @]
    IN IF n1.monitor_only_mode THEN apply_monitor_only_defaults(n1) ELSE n1

(***************************************************************************)
(* State.  The fields of AppState, the poll thread's locals, the clock and *)
(* the environment's record of what the last operation did.                *)
(***************************************************************************)
VARIABLES
    settings,                   \* AppState.settings (always normalized)
    is_connected,
    has_emitted_disconnected,
    is_on_battery,
    was_battery_low,
    was_battery_critical,
    battery_start_ms,           \* Option<u64>
    last_status,                \* Option<UpsData>
    scheduled_shutdown_at_ms,   \* Option<u64>: the pending deadline
    scheduled_shutdown_reason,  \* Option<String>
    last_error,                 \* Option<String>
    sound_generation,           \* AtomicU64
    tasks,                      \* the playback tasks spawned so far, in spawn order
    api,                        \* start_ups_monitor: api.is_some()
    connected_device,           \* start_ups_monitor: connected_device.is_some()
    pollPc,                     \* the poll thread: "run" (about to run an iteration) or "sleep"
    now,                        \* the wall clock, in minutes
    out,                        \* what the last operation did: events emitted, calls made
    req_min,                    \* history: the earliest deadline requested since the last cancel or firing
    cancel_done,                \* history: the last cancel, if no schedule request was made since:
                                \*   whether it completed, and the deadline it removed
    ac_run,                     \* history: the current run of consecutive utilityFail snapshots
    stream_pos,                 \* the end-to-end scenario: snapshots of Stream fed so far
    thr,                        \* the fine-grained command/poll threads: their position and locals
    events,                     \* AppState.events, newest first, in the history scenario
    data_history,               \* AppState.data_history, newest first, in the history scenario
    battery_run                 \* history: the current runs of consecutive snapshots on which the
                                \*   battery-low and the battery-critical condition held

vars == << settings, is_connected, has_emitted_disconnected, is_on_battery,
           was_battery_low, was_battery_critical, battery_start_ms, last_status,
           scheduled_shutdown_at_ms, scheduled_shutdown_reason, last_error,
           sound_generation, tasks, api, connected_device, pollPc, now, out,
           req_min, cancel_done, ac_run, stream_pos, thr, events, data_history, battery_run >>

\* The two history lists.  Nothing in the engine reads them back, so a handler's effect
\* on them is recorded in out ("event_written", "data_point_written") and applied to
\* the lists by the history scenario, which tracks them; the other scenarios do not.
history == << events, data_history >>

\* The shared state as one record, so that a handler is a function from state to state
\* and a sequence of calls is a composition.
Pack ==
    [ settings |-> settings,
      is_connected |-> is_connected,
      has_emitted_disconnected |-> has_emitted_disconnected,
      is_on_battery |-> is_on_battery,
      was_battery_low |-> was_battery_low,
      was_battery_critical |-> was_battery_critical,
      battery_start_ms |-> battery_start_ms,
      last_status |-> last_status,
      scheduled_shutdown_at_ms |-> scheduled_shutdown_at_ms,
      scheduled_shutdown_reason |-> scheduled_shutdown_reason,
      last_error |-> last_error,
      sound_generation |-> sound_generation,
      tasks |-> tasks,
      api |-> api,
      connected_device |-> connected_device,
      now |-> now,
      out |-> << >>,
      req_min |-> req_min,
      cancel_done |-> cancel_done,
      ac_run |-> ac_run ]

CommitUpTo(s, max_generation) ==
    /\ s.sound_generation <= max_generation
    /\ settings' = s.settings
    /\ is_connected' = s.is_connected
    /\ has_emitted_disconnected' = s.has_emitted_disconnected
    /\ is_on_battery' = s.is_on_battery
    /\ was_battery_low' = s.was_battery_low
    /\ was_battery_critical' = s.was_battery_critical
    /\ battery_start_ms' = s.battery_start_ms
    /\ last_status' = s.last_status
    /\ scheduled_shutdown_at_ms' = s.scheduled_shutdown_at_ms
    /\ scheduled_shutdown_reason' = s.scheduled_shutdown_reason
    /\ last_error' = s.last_error
    /\ sound_generation' = s.sound_generation
    /\ tasks' = s.tasks
    /\ api' = s.api
    /\ connected_device' = s.connected_device
    /\ out' = s.out
    /\ req_min' = s.req_min
    /\ cancel_done' = s.cancel_done
    /\ ac_run' = s.ac_run

Commit(s) == CommitUpTo(s, MaxGen)

\* One thing an operation did: k the kind ("emit", "log_event", "dispatch", ...),
\* a its name, b its number.
Note(s, k, a, b) == [s EXCEPT !.out = Append(@, [k |-> k, a |-> a, b |-> b])]

emit_if_possible(s, event, n) == Note(s, "emit", event, n)

\* the entries of kind k and name a in a record of what an operation did
Entries(o, k, a) == { i \in 1..Len(o) : o[i].k = k /\ o[i].a = a }
CountOut(o, k, a) == Cardinality(Entries(o, k, a))
HasOut(o, k, a) == Entries(o, k, a) # {}
\* the schedule requests (any reason) in a record of what an operation did
Requests(o) == { i \in 1..Len(o) : o[i].k = "schedule_request" }
SystemActions(o) == { i \in 1..Len(o) : o[i].k = "system_action" }

(***************************************************************************)
(* AppState::log_event: nothing is written in monitor-only mode (it reads  *)
(* the stored settings, not the caller's clone).                           *)
(***************************************************************************)
log_write(s, name) ==
    IF s.settings.monitor_only_mode THEN s ELSE Note(s, "event_written", name, 0)

log_event(s, name) == log_write(Note(s, "log_event", name, 0), name)

\* AppState::log_data_point_if_needed: the stored settings' save_history decides;
\* history_due is whether history_interval has elapsed since the last point was saved
data_point_write(s, history_due) ==
    IF ~s.settings.save_history THEN s
    ELSE IF ~history_due THEN s
    ELSE Note(s, "data_point_written", "", s.now)

log_data_point_if_needed(s, history_due) ==
    data_point_write(Note(s, "log_data_point_if_needed", "", IF history_due THEN 1 ELSE 0),
                     history_due)

\* log_event, lines 489-501: the list after one event is written.  seq numbers the
\* entries in the order they were written.
BadEventsInsert(list, name) ==
    << [seq |-> IF list = << >> THEN 1 ELSE list[1].seq + 1, name |-> name] >> \o list
events_insert(list, name) ==
    SubSeq(<< [seq |-> IF list = << >> THEN 1 ELSE list[1].seq + 1, name |-> name] >> \o list,
           1, Min(Len(list) + 1, MAX_EVENTS))

\* log_data_point_if_needed, lines 525-540: the list after one point is written
data_insert(list, id) ==
    SubSeq(<< [seq |-> IF list = << >> THEN 1 ELSE list[1].seq + 1, id |-> id] >> \o list,
           1, Min(Len(list) + 1, MAX_DATA_POINTS))

\* the two lists after the writes an operation made, from its i-th on
RECURSIVE events_after(_, _, _)
events_after(list, o, i) ==
    IF i > Len(o) THEN list
    ELSE events_after(IF o[i].k = "event_written" THEN events_insert(list, o[i].a) ELSE list,
                      o, i + 1)

RECURSIVE data_after(_, _, _)
data_after(list, o, i) ==
    IF i > Len(o) THEN list
    ELSE data_after(IF o[i].k = "data_point_written" THEN data_insert(list, o[i].b) ELSE list,
                    o, i + 1)

\* the ups-error event is noted twice: with its message, and as an emitted event
emit_error_once(s, message) ==
    IF s.last_error = Some(message)
    THEN s
    ELSE emit_if_possible(Note([s EXCEPT !.last_error = Some(message)], "ups-error", message, 0),
                          "ups-error", 0)

clear_last_error(s) == [s EXCEPT !.last_error = None]

(***************************************************************************)
(* ShutdownScheduler                                                       *)
(***************************************************************************)
\* cancel_scheduled_shutdown, line 808: take() the deadline
BadCancelTake(s) ==
    [s EXCEPT !.req_min = None,
              !.cancel_done = [done |-> FALSE, deadline |-> s.scheduled_shutdown_at_ms]]
cancel_take(s) ==
    [s EXCEPT !.scheduled_shutdown_at_ms = None,
              !.req_min = None,
              !.cancel_done = [done |-> FALSE, deadline |-> s.scheduled_shutdown_at_ms]]

\* cancel_scheduled_shutdown, lines 809-812: clear the reason, emit
cancel_finish(s, had_schedule, emit_event) ==
    LET s1 == [s EXCEPT !.scheduled_shutdown_reason = None, !.cancel_done.done = TRUE]
    IN IF had_schedule /\ emit_event
       THEN emit_if_possible(s1, "shutdown-cancelled", 0)
       ELSE s1

cancel_scheduled_shutdown(s, emit_event) ==
    cancel_finish(cancel_take(s), IsSome(s.scheduled_shutdown_at_ms), emit_event)

NotCancelled == [done |-> FALSE, deadline |-> None]

BadSafeMinutesOf(delay_minutes) == Max(delay_minutes, MinDelayMinutes)
safe_minutes_of(delay_minutes) == Min(Max(delay_minutes, MinDelayMinutes), MaxDelayMinutes)

\* schedule_shutdown_after_minutes, lines 826-828
BadShouldReplace(existing, target_ms) ==
    IF IsSome(existing) THEN target_ms <= Get(existing) ELSE TRUE
should_replace(existing, target_ms) ==
    IF IsSome(existing) THEN target_ms < Get(existing) ELSE TRUE

\* schedule_shutdown_after_minutes, lines 822-834: the deadline, under its lock
schedule_set_deadline(s, target_ms, reason) ==
    LET s1 == Note([s EXCEPT !.cancel_done = NotCancelled,
                             !.req_min = IF IsSome(@) THEN Some(Min(Get(@), target_ms))
                                                      ELSE Some(target_ms)],
                   "schedule_request", reason, target_ms)
    IN IF should_replace(s.scheduled_shutdown_at_ms, target_ms)
       THEN [s1 EXCEPT !.scheduled_shutdown_at_ms = Some(target_ms)]
       ELSE s1

\* schedule_shutdown_after_minutes, lines 836-844: the reason, then the event
schedule_set_reason(s, safe_minutes, reason) ==
    emit_if_possible([s EXCEPT !.scheduled_shutdown_reason = Some(reason)],
                     "shutdown-scheduled", safe_minutes)

schedule_shutdown_after_minutes(s, delay_minutes, reason) ==
    LET safe_minutes == safe_minutes_of(delay_minutes)
        target_ms == s.now + safe_minutes
        s1 == schedule_set_deadline(s, target_ms, reason)
    IN IF should_replace(s.scheduled_shutdown_at_ms, target_ms)
       THEN schedule_set_reason(s1, safe_minutes, reason)
       ELSE s1

\* whether a deadline or a reason is stored
schedule_stored(s) ==
    IF IsSome(s.scheduled_shutdown_at_ms) \/ IsSome(s.scheduled_shutdown_reason) THEN 1 ELSE 0

\* execute_shutdown_command: which command is spawned; spawn_ok is whether the spawn
\* succeeds.  The note of the system action says whether a schedule was stored then.
execute_shutdown_command(s, st, reason, spawn_ok) ==
    LET what == IF st.shutdown_pc.shutdown_command # "" THEN "custom"
                ELSE IF st.shutdown_pc.action = "sleep" THEN "sleep" ELSE "shutdown"
        s1 == Note(s, "system_action", what, schedule_stored(s))
    IN IF spawn_ok THEN s1
       ELSE emit_error_once(Note(s1, "spawn_failed", what, 0), "shutdown-command-failed")

BadProcessPendingShutdown(s, st, spawn_ok) ==
    IF st.monitor_only_mode THEN s
    ELSE IF ~(IsSome(s.scheduled_shutdown_at_ms) /\ s.now >= Get(s.scheduled_shutdown_at_ms))
    THEN s
    ELSE LET reason == IF IsSome(s.scheduled_shutdown_reason)
                       THEN Get(s.scheduled_shutdown_reason) ELSE "shutdown-scheduled"
             s1 == IF spawn_ok THEN cancel_scheduled_shutdown(s, FALSE) ELSE s
             s2 == Note(s1, "notify", "Apagado de seguridad", 0)
             s3 == emit_if_possible(s2, "urgent-alert", 0)
             s4 == log_event(s3, "Shutdown execution")
         IN execute_shutdown_command(Note(s4, "fire", reason, 0), st, reason, spawn_ok)
BadProcessPendingEarly(s, st, spawn_ok) ==
    IF st.monitor_only_mode THEN s
    ELSE IF ~IsSome(s.scheduled_shutdown_at_ms)
    THEN s
    ELSE LET reason == IF IsSome(s.scheduled_shutdown_reason)
                       THEN Get(s.scheduled_shutdown_reason) ELSE "shutdown-scheduled"
             s1 == cancel_scheduled_shutdown(s, FALSE)
             s2 == Note(s1, "notify", "Apagado de seguridad", 0)
             s3 == emit_if_possible(s2, "urgent-alert", 0)
             s4 == log_event(s3, "Shutdown execution")
         IN execute_shutdown_command(Note(s4, "fire", reason, 0), st, reason, spawn_ok)
process_pending_shutdown(s, st, spawn_ok) ==
    IF st.monitor_only_mode THEN s
    ELSE IF ~(IsSome(s.scheduled_shutdown_at_ms) /\ s.now >= Get(s.scheduled_shutdown_at_ms))
    THEN s
    ELSE LET reason == IF IsSome(s.scheduled_shutdown_reason)
                       THEN Get(s.scheduled_shutdown_reason) ELSE "shutdown-scheduled"
             s1 == cancel_scheduled_shutdown(s, FALSE)
             s2 == Note(s1, "notify", "Apagado de seguridad", 0)
             s3 == emit_if_possible(s2, "urgent-alert", 0)
             s4 == log_event(s3, "Shutdown execution")
         IN execute_shutdown_command(Note(s4, "fire", reason, 0), st, reason, spawn_ok)

(***************************************************************************)
(* SoundPlayer: the generation counter and the spawn of a playback task.   *)
(* The task's token is the counter's new value; its loop is stepped by the *)
(* Playback actions below.                                                 *)
(***************************************************************************)
\* line 693: fetch_add(1) + 1
BadFetchAdd(generation) == generation
fetch_add(generation) == generation + 1

loop_count_of(repeats) == Min(Max(repeats, 1), MaxLoopCount)

play_sound_with_generation(s, sound_path, repeats) ==
    LET generation == fetch_add(s.sound_generation)
        s1 == [s EXCEPT !.sound_generation = generation,
                        !.tasks = Append(@, [token |-> generation,
                                             path |-> sound_path,
                                             left |-> loop_count_of(repeats),
                                             pc |-> "check",
                                             started |-> 0])]
    IN Note(s1, "play", "spawn", generation)

\* stop_sound, and every other place that only bumps the counter
bump_generation(s) == [s EXCEPT !.sound_generation = @ + 1]

\* The playback task, lines 696-733.  pc is where the task is: "check" before the load of
\* line 700, "start" between that load and the start of the sound, "playing" in the
\* loop of lines 712-718, "after" before the load of line 728, "done" returned.
\* started counts the sound files and fallback beeps the task has started.

\* line 700: the top of a repetition
playback_check(task, generation) ==
    IF generation # task.token
    THEN [task EXCEPT !.pc = "done"]
    ELSE [task EXCEPT !.pc = "start"]

\* lines 704-709 and 722-725: sink.append(source), or play_fallback_beep()
playback_start(task) ==
    IF task.path
    THEN [task EXCEPT !.pc = "playing", !.started = @ + 1]
    ELSE [task EXCEPT !.pc = "after", !.started = @ + 1]

\* lines 712-718: one turn of the wait for the sink
playback_wait(task, generation, sink_empty) ==
    IF sink_empty THEN [task EXCEPT !.pc = "after"]
    ELSE IF generation # task.token THEN [task EXCEPT !.pc = "done"]
    ELSE task

\* lines 728-731 and the loop's counter
BadPlaybackAfter(task, generation) ==
    IF generation # task.token THEN [task EXCEPT !.pc = "done"]
    ELSE [task EXCEPT !.pc = "check"]
playback_after(task, generation) ==
    IF generation # task.token THEN [task EXCEPT !.pc = "done"]
    ELSE IF task.left <= 1 THEN [task EXCEPT !.left = 0, !.pc = "done"]
    ELSE [task EXCEPT !.left = @ - 1, !.pc = "check"]

(***************************************************************************)
(* AlertDispatcher                                                         *)
(***************************************************************************)
AlertKinds == {"AcFault", "BatteryLow", "BatteryCritical"}

alert_config_for_kind(st, kind) ==
    CASE kind = "AcFault" -> st.alerts.ac_fault
      [] kind = "BatteryLow" -> st.alerts.battery_low
      [] OTHER -> st.alerts.battery_critical

\* handle_alert_transition, lines 945-971: the shutdown request of the kind
BadAlertSchedule(s, st, kind) ==
    CASE kind = "AcFault" /\ st.shutdown_pc.on_ac_fault.enabled ->
             schedule_shutdown_after_minutes(s, BATTERY_LOW_SHUTDOWN_DELAY_MINUTES, "ac-fault")
      [] kind = "BatteryLow" /\ st.shutdown_pc.on_battery_low.enabled ->
             schedule_shutdown_after_minutes(s, BATTERY_LOW_SHUTDOWN_DELAY_MINUTES, "battery-low")
      [] kind = "BatteryCritical" /\ st.shutdown_pc.on_battery_critical.enabled ->
             schedule_shutdown_after_minutes(s, BATTERY_CRITICAL_SHUTDOWN_DELAY_MINUTES, "battery-critical")
      [] OTHER -> s
alert_schedule(s, st, kind) ==
    CASE kind = "AcFault" /\ st.shutdown_pc.on_ac_fault.enabled ->
             schedule_shutdown_after_minutes(s, st.shutdown_pc.on_ac_fault.delay_minutes, "ac-fault")
      [] kind = "BatteryLow" /\ st.shutdown_pc.on_battery_low.enabled ->
             schedule_shutdown_after_minutes(s, BATTERY_LOW_SHUTDOWN_DELAY_MINUTES, "battery-low")
      [] kind = "BatteryCritical" /\ st.shutdown_pc.on_battery_critical.enabled ->
             schedule_shutdown_after_minutes(s, BATTERY_CRITICAL_SHUTDOWN_DELAY_MINUTES, "battery-critical")
      [] OTHER -> s

\* handle_alert_transition, lines 922-943: notification, urgent alert, sound
alert_notify(s, st, kind, sound_file) ==
    LET config == alert_config_for_kind(st, kind)
        s1 == IF st.enable_notifications /\ config.show_popup
              THEN Note(s, "notify", kind, 0) ELSE s
        s2 == IF config.show_popup THEN emit_if_possible(s1, "urgent-alert", 0) ELSE s1
    IN IF config.play_sound
       THEN play_sound_with_generation(s2, sound_file, config.sound_repeats)
       ELSE s2

handle_alert_transition(s, st, kind, sound_file) ==
    LET s0 == Note(s, "dispatch", kind, 0)
    IN IF st.monitor_only_mode THEN s0
       ELSE alert_schedule(alert_notify(s0, st, kind, sound_file), st, kind)

(***************************************************************************)
(* Connection latches                                                      *)
(***************************************************************************)
BadMarkDisconnected(s) ==
    LET was_connected == s.is_connected
        s1 == [s EXCEPT !.is_connected = FALSE,
                        !.ac_run = [len |-> 0, trans |-> 0, logs |-> 0]]
    IN IF ~was_connected /\ s.has_emitted_disconnected THEN s1
       ELSE LET s2 == [s1 EXCEPT !.has_emitted_disconnected = TRUE,
                                 !.is_on_battery = FALSE,
                                 !.was_battery_low = FALSE,
                                 !.was_battery_critical = FALSE,
                                 !.battery_start_ms = None]
                s3 == bump_generation(cancel_scheduled_shutdown(s2, TRUE))
                s4 == IF was_connected THEN log_event(s3, "UPS disconnected") ELSE s3
            IN emit_if_possible(s4, "ups-disconnected", 0)
mark_disconnected(s) ==
    LET was_connected == s.is_connected
        s1 == [s EXCEPT !.is_connected = FALSE,
                        !.ac_run = [len |-> 0, trans |-> 0, logs |-> 0]]
    IN IF ~was_connected /\ s.has_emitted_disconnected THEN s1
       ELSE LET s2 == [s1 EXCEPT !.has_emitted_disconnected = TRUE,
                                 !.is_on_battery = FALSE,
                                 !.was_battery_low = FALSE,
                                 !.was_battery_critical = FALSE,
                                 !.battery_start_ms = None,
                                 !.last_status = None]
                s3 == bump_generation(cancel_scheduled_shutdown(s2, TRUE))
                s4 == IF was_connected THEN log_event(s3, "UPS disconnected") ELSE s3
            IN emit_if_possible(s4, "ups-disconnected", 0)

\* mark_connected without the early return of line 618
BadMarkConnected(s) ==
    emit_if_possible(
        log_event([s EXCEPT !.is_connected = TRUE,
                            !.has_emitted_disconnected = FALSE], "UPS connected"),
        "ups-connected", 0)

mark_connected(s) ==
    IF s.is_connected THEN s
    ELSE emit_if_possible(
             log_event([s EXCEPT !.is_connected = TRUE,
                                 !.has_emitted_disconnected = FALSE], "UPS connected"),
             "ups-connected", 0)

(***************************************************************************)
(* TelemetryStateMachine: handle_status_packet                             *)
(***************************************************************************)
\* line 1137: the on-battery latch takes the snapshot's utilityFail
BadLatchOnBattery(s, is_on) == s
latch_on_battery(s, is_on) == [s EXCEPT !.is_on_battery = is_on]

\* lines 1083-1090: AC restored
BadAcRestored(s) ==
    bump_generation(
        log_event([s EXCEPT !.battery_start_ms = None,
                            !.was_battery_low = FALSE,
                            !.was_battery_critical = FALSE], "Normal AC value"))
ac_restored(s) ==
    bump_generation(
        cancel_scheduled_shutdown(
            log_event([s EXCEPT !.battery_start_ms = None,
                                !.was_battery_low = FALSE,
                                !.was_battery_critical = FALSE], "Normal AC value"),
            TRUE))

\* history: the run of consecutive utilityFail snapshots this snapshot extends or ends,
\* with the AcFault dispatches and the 'AC Fault' log_event calls made during the run
count_run(s, status) ==
    IF status.utility_fail
    THEN [s EXCEPT !.ac_run = [len |-> Min(@.len + 1, MaxRun),
                               trans |-> @.trans + CountOut(s.out, "dispatch", "AcFault"),
                               logs |-> @.logs + CountOut(s.out, "log_event", "AC Fault")]]
    ELSE [s EXCEPT !.ac_run = [len |-> 0, trans |-> 0, logs |-> 0]]

is_low_battery(st, status) ==
    status.utility_fail
    /\ (status.battery_low \/ status.battery_percent <= st.low_battery_threshold)

BadIsCriticalBattery(st, status) ==
    status.utility_fail /\ status.battery_percent <= st.low_battery_threshold
is_critical_battery(st, status) ==
    status.utility_fail /\ status.battery_percent <= st.critical_battery_threshold

\* lines 1076-1090: AC fault entered, or AC restored
BadAcTransition(s, status) ==
    IF status.utility_fail /\ ~s.is_on_battery
    THEN log_event([s EXCEPT !.battery_start_ms = Some(s.now)], "AC Fault")
    ELSE IF ~status.utility_fail /\ s.is_on_battery
    THEN [ac_restored(s) EXCEPT !.battery_start_ms = s.battery_start_ms]
    ELSE s
ac_transition(s, status) ==
    IF status.utility_fail /\ ~s.is_on_battery
    THEN log_event([s EXCEPT !.battery_start_ms = Some(s.now)], "AC Fault")
    ELSE IF ~status.utility_fail /\ s.is_on_battery THEN ac_restored(s) ELSE s

\* lines 1097-1108: the battery-low latch
battery_low_latch(s, triggered, is_low) ==
    LET a == IF triggered
             THEN [log_event(s, "Battery Low") EXCEPT !.was_battery_low = TRUE]
             ELSE s
    IN IF ~is_low THEN [a EXCEPT !.was_battery_low = FALSE] ELSE a

\* lines 1110-1121: the battery-critical latch
BadBatteryCriticalLatch(s, triggered, is_critical) ==
    IF triggered THEN log_event(s, "Battery Critical")
    ELSE IF ~is_critical THEN [s EXCEPT !.was_battery_critical = FALSE] ELSE s
battery_critical_latch(s, triggered, is_critical) ==
    LET a == IF triggered
             THEN [log_event(s, "Battery Critical") EXCEPT !.was_battery_critical = TRUE]
             ELSE s
    IN IF ~is_critical THEN [a EXCEPT !.was_battery_critical = FALSE] ELSE a

\* lines 1123-1131: one dispatch, if its transition was triggered
alert_if(s, st, triggered, kind, sound_file) ==
    IF triggered THEN handle_alert_transition(s, st, kind, sound_file) ELSE s

\* lines 1123-1141: the dispatches in their fixed order, the deadline check, the
\* on-battery latch, the snapshot
BadStatusDispatch(s, st, status, env, ac_fault_triggered, battery_low_triggered, battery_critical_triggered) ==
    emit_if_possible(
        count_run(
            log_data_point_if_needed(
                [latch_on_battery(
                     process_pending_shutdown(
                         alert_if(
                             alert_if(
                                 alert_if(s, st, battery_critical_triggered, "BatteryCritical", env.sound_file),
                                 st, battery_low_triggered, "BatteryLow", env.sound_file),
                             st, ac_fault_triggered, "AcFault", env.sound_file),
                         st, env.spawn_ok),
                     status.utility_fail)
                 EXCEPT !.last_status = Some(status)],
                env.history_due),
            status),
        "ups-data", 0)
status_dispatch(s, st, status, env, ac_fault_triggered, battery_low_triggered, battery_critical_triggered) ==
    emit_if_possible(
        count_run(
            log_data_point_if_needed(
                [latch_on_battery(
                     process_pending_shutdown(
                         alert_if(
                             alert_if(
                                 alert_if(s, st, ac_fault_triggered, "AcFault", env.sound_file),
                                 st, battery_low_triggered, "BatteryLow", env.sound_file),
                             st, battery_critical_triggered, "BatteryCritical", env.sound_file),
                         st, env.spawn_ok),
                     status.utility_fail)
                 EXCEPT !.last_status = Some(status)],
                env.history_due),
            status),
        "ups-data", 0)

\* lines 1097-1141, the triggered flags known
status_latches(s, st, status, env, ac_fault_triggered, battery_low_triggered, battery_critical_triggered) ==
    status_dispatch(
        battery_critical_latch(
            battery_low_latch(s, battery_low_triggered, is_low_battery(st, status)),
            battery_critical_triggered, is_critical_battery(st, status)),
        st, status, env, ac_fault_triggered, battery_low_triggered,
        battery_critical_triggered)

\* lines 1092-1141: s is the state after the AC transition
BadStatusAfterAc(s, st, status, env, ac_fault_triggered) ==
    status_latches(s, st, status, env, ac_fault_triggered,
        is_low_battery(st, status) /\ ~s.was_battery_low,
        is_critical_battery(st, status) /\ ~s.was_battery_critical)
status_after_ac(s, st, status, env, ac_fault_triggered) ==
    status_latches(s, st, status, env, ac_fault_triggered,
        is_low_battery(st, status) /\ ~is_critical_battery(st, status) /\ ~s.was_battery_low,
        is_critical_battery(st, status) /\ ~s.was_battery_critical)

\* st is the clone of the settings taken at line 1071
handle_status_packet(s, st, status, env) ==
    status_after_ac(ac_transition(s, status), st, status, env,
                    status.utility_fail /\ ~s.is_on_battery)

(***************************************************************************)
(* PacketDecoder: the battery percentage.  Voltages are in tenths of a     *)
(* volt, the resolution of the device's status frame.                      *)
(***************************************************************************)
min_voltage == 210
max_voltage == 268

\* f64::round of a positive quotient n / d: the nearest integer, halves away from zero
round_div(n, d) == (2 * n + d) \div (2 * d)

BadCalculateBatteryPercent(voltage) ==
    IF voltage <= min_voltage THEN 0
    ELSE round_div((voltage - min_voltage) * 100, max_voltage - min_voltage)
calculate_battery_percent(voltage) ==
    IF voltage <= min_voltage THEN 0
    ELSE IF voltage >= max_voltage THEN 100
    ELSE Min(Max(round_div((voltage - min_voltage) * 100, max_voltage - min_voltage), 0), 100)

\* parse_ups_string, lines 1176-1205: the fields of a status frame the engine uses
parse_ups_string(battery_voltage, utility_fail, battery_low) ==
    [ utility_fail |-> utility_fail,
      battery_low |-> battery_low,
      battery_voltage |-> battery_voltage,
      battery_percent |-> calculate_battery_percent(battery_voltage) ]

(***************************************************************************)
(* PacketDecoder: from the bytes of one read to a packet.  A buffer is a   *)
(* sequence of bytes, a text a sequence of printable bytes.                *)
(***************************************************************************)
CarriageReturn == 13
Blank == 32
Hash == 35
LeftParen == 40
Dot == 46
Digit0 == 48
LetterV == 86

\* Iterator::position(..).unwrap_or(len): how many bytes come before the first `byte`
position_or_len(bytes, byte) ==
    IF \E i \in 1..Len(bytes) : bytes[i] = byte
    THEN (CHOOSE i \in 1..Len(bytes) :
              bytes[i] = byte /\ \A j \in 1..(i - 1) : bytes[j] # byte) - 1
    ELSE Len(bytes)

is_printable(byte) == byte >= 32 /\ byte <= 126

\* str::trim, on printable ASCII: the blank is the only whitespace
RECURSIVE trim_start(_)
trim_start(text) ==
    IF text # << >> /\ text[1] = Blank THEN trim_start(Tail(text)) ELSE text

RECURSIVE trim_end(_)
trim_end(text) ==
    IF text # << >> /\ text[Len(text)] = Blank
    THEN trim_end(SubSeq(text, 1, Len(text) - 1)) ELSE text

trim(text) == trim_end(trim_start(text))

RECURSIVE trim_start_matches(_, _)
trim_start_matches(text, byte) ==
    IF text # << >> /\ text[1] = byte THEN trim_start_matches(Tail(text), byte) ELSE text

\* str::split_whitespace: the maximal runs of non-blank bytes, in order
RECURSIVE split_whitespace(_)
split_word(text, n) ==
    << SubSeq(text, 1, n) >> \o split_whitespace(SubSeq(text, n + 1, Len(text)))
split_whitespace(text) ==
    IF text = << >> THEN << >>
    ELSE IF text[1] = Blank THEN split_whitespace(Tail(text))
    ELSE split_word(text, position_or_len(text, Blank))

contains(text, byte) == \E i \in 1..Len(text) : text[i] = byte

is_digits(word) ==
    word # << >> /\ \A i \in 1..Len(word) : word[i] >= Digit0 /\ word[i] <= Digit0 + 9

RECURSIVE digits_value(_)
digits_value(word) ==
    IF word = << >> THEN 0
    ELSE 10 * digits_value(SubSeq(word, 1, Len(word) - 1)) + (word[Len(word)] - Digit0)

\* parse_u64: value.parse::<u64>().unwrap_or(0), of a field of a few digits
parse_u64(value) == IF is_digits(value) THEN digits_value(value) ELSE 0

\* parse_f64: value.parse::<f64>().unwrap_or(0.0), in tenths, of a field that is a whole
\* number, a number with one decimal as the device sends it, or no number at all.
\* (Signs, exponents and further decimals are outside what this operator is applied to.)
parse_f64(value) ==
    IF is_digits(value) THEN 10 * digits_value(value)
    ELSE IF /\ Len(value) >= 3
            /\ value[Len(value) - 1] = Dot
            /\ is_digits(SubSeq(value, 1, Len(value) - 2))
            /\ is_digits(<< value[Len(value)] >>)
    THEN 10 * digits_value(SubSeq(value, 1, Len(value) - 2)) + (value[Len(value)] - Digit0)
    ELSE 0

\* status_bit: bits.chars().nth(index) is '1'
status_bit(bits, index) == index + 1 <= Len(bits) /\ bits[index + 1] = Digit0 + 1

\* parse_ups_string, lines 1179-1205: the UpsData of a frame of 8 fields or more.  flags
\* are the fields the engine uses.  timestamp is now_iso(), the clock at the time of the
\* call.  (estimated_runtime, a rounded floating-point product read by nothing in the
\* engine, is left out.)
ups_data(parts, flags, clock) ==
    [ type |-> "STATUS",
      input_voltage |-> parse_f64(parts[1]),
      fault_voltage |-> parse_f64(parts[2]),
      output_voltage |-> parse_f64(parts[3]),
      load_percent |-> parse_u64(parts[4]),
      frequency |-> parse_f64(parts[5]),
      battery_voltage |-> flags.battery_voltage,
      temperature |-> parse_f64(parts[7]),
      battery_percent |-> flags.battery_percent,
      timestamp |-> clock,
      raw |-> parts[8],
      utility_fail |-> flags.utility_fail,
      battery_low |-> flags.battery_low ]

\* parse_ups_string, lines 1179-1203: the packet of a frame of 8 fields or more
status_packet(parts, clock) ==
    Some([packet |-> "Status",
          status |-> ups_data(parts,
                              parse_ups_string(parse_f64(parts[6]),
                                               status_bit(parts[8], 0),
                                               status_bit(parts[8], 1)),
                              clock)])

\* parse_ups_string, lines 1171-1177: the fields after the leading '('
BadParseStatus(parts, clock) ==
    IF Len(parts) < 7 THEN None ELSE status_packet(parts \o << << Digit0 + 1 >> >>, clock)
parse_status(parts, clock) ==
    IF Len(parts) < 8 THEN None ELSE status_packet(parts, clock)

\* parse_ups_string, lines 1207-1211: input.replace('#', "").trim()
version_of(input) == trim(SelectSeq(input, LAMBDA byte : byte # Hash))

\* parse_ups_string, lines 1169-1214, of the cleaned text
parse_ups_text(input, clock) ==
    IF input # << >> /\ input[1] = LeftParen
    THEN parse_status(split_whitespace(trim_start_matches(input, LeftParen)), clock)
    ELSE IF contains(input, LetterV)
    THEN Some([packet |-> "Version", firmware |-> version_of(input)])
    ELSE None

\* decode_packet, lines 1149-1164: the report id dropped, the content cut at the first
\* carriage return, its printable bytes kept
data_bytes(raw_data) == IF Len(raw_data) > 1 THEN Tail(raw_data) ELSE raw_data

ascii_of(bytes) == SelectSeq(SubSeq(bytes, 1, position_or_len(bytes, CarriageReturn)), is_printable)

\* clock is the wall clock when the call is made
decode_packet(raw_data, clock) ==
    IF raw_data = << >> THEN None
    ELSE parse_ups_text(trim(ascii_of(data_bytes(raw_data))), clock)

(***************************************************************************)
(* DeviceConnectionManager and PollLoop                                    *)
(***************************************************************************)
\* read_one_packet: env.read is what the device read and the decoder return
\* an operation of the HID layer succeeded: HidApi::new, refresh_devices, open_path,
\* read_timeout
hid_ok(s, what) == Note(s, "hid_ok", what, 0)

read_one_packet(s, st, env) ==
    CASE env.read = "err" -> mark_disconnected(emit_error_once(s, "HID read error"))
      [] env.read = "status" -> handle_status_packet(hid_ok(s, "read"), st, env.status, env)
      [] OTHER -> hid_ok(s, "read")

read_ok(env) == env.read # "err"

poll_ups(s, st, env) ==
    IF s.connected_device
    THEN [read_one_packet(mark_connected(clear_last_error(s)), st, env)
             EXCEPT !.connected_device = read_ok(env)]
    ELSE IF env.found
         THEN IF env.open_ok
              THEN read_one_packet(
                       [mark_connected(clear_last_error(hid_ok(s, "open")))
                           EXCEPT !.connected_device = TRUE],
                       st, env)
              ELSE emit_error_once(s, "Cannot open UPS HID device")
         ELSE mark_disconnected(clear_last_error(s))

\* start_ups_monitor, lines 1262-1312: one iteration of the loop, up to its sleep;
\* st is the clone of the settings the poll thread works with (lines 1262 and 1071)
\* lines 1275-1285: HidApi::new() succeeded, if there was no api
api_ready(s) == IF s.api THEN s ELSE hid_ok([s EXCEPT !.api = TRUE], "init")

\* lines 1291-1300: refresh_devices() succeeded, if it was due
api_refreshed(s, env) == IF env.refresh_due THEN hid_ok(s, "refresh") ELSE s

poll_iteration(s, st, env) ==
    IF ~s.api /\ ~env.hid_init_ok
    THEN emit_error_once(mark_disconnected(s), "HID init error")
    ELSE IF env.refresh_due /\ ~env.refresh_ok
    THEN [emit_error_once(mark_disconnected(api_ready(s)), "HID refresh error")
             EXCEPT !.api = FALSE, !.connected_device = FALSE]
    ELSE process_pending_shutdown(poll_ups(api_refreshed(api_ready(s), env), st, env),
                                  st, env.spawn_ok)

(***************************************************************************)
(* Command handlers                                                        *)
(***************************************************************************)
\* save_settings, lines 1359-1362: entering monitor-only mode
save_monitor_only(s) == cancel_scheduled_shutdown(bump_generation(s), TRUE)

save_settings(s, new_settings) ==
    LET normalized == normalize(new_settings)
        s1 == IF normalized.monitor_only_mode THEN save_monitor_only(s) ELSE s
    IN [s1 EXCEPT !.settings = normalized]

\* the command that runs is noted first
command(s, name) == Note(s, "command", name, 0)

trigger_shutdown_body(s, minutes) ==
    IF s.settings.monitor_only_mode
    THEN Note(s, "return", "false", 0)
    ELSE Note(schedule_shutdown_after_minutes(s, minutes, "manual-trigger"), "return", "true", 0)

trigger_shutdown(s, minutes) == trigger_shutdown_body(command(s, "trigger_shutdown"), minutes)

\* simulate_shutdown_flow, lines 1530-1545: the two events around the sleep
simulate_events(s, safe_minutes, safe_cancel_ms) ==
    emit_if_possible(
        Note(emit_if_possible(s, "shutdown-scheduled", safe_minutes), "sleep", "", safe_cancel_ms),
        "shutdown-cancelled", 0)

simulate_shutdown_flow_body(s, minutes, auto_cancel_ms) ==
    IF s.settings.monitor_only_mode
    THEN Note(s, "return", "error", 0)
    ELSE Note(simulate_events(s, Max(IF IsSome(minutes) THEN Get(minutes) ELSE 5, 1),
                              Max(IF IsSome(auto_cancel_ms) THEN Get(auto_cancel_ms) ELSE 1200, 100)),
              "return", "ok", 0)

BadSimulateShutdownFlow(s, minutes, auto_cancel_ms) ==
    Note(simulate_events(command(s, "simulate_shutdown_flow"),
                         Max(IF IsSome(minutes) THEN Get(minutes) ELSE 5, 1),
                         Max(IF IsSome(auto_cancel_ms) THEN Get(auto_cancel_ms) ELSE 1200, 100)),
         "return", "ok", 0)
simulate_shutdown_flow(s, minutes, auto_cancel_ms) ==
    simulate_shutdown_flow_body(command(s, "simulate_shutdown_flow"), minutes, auto_cancel_ms)

cancel_shutdown(s) ==
    Note(cancel_scheduled_shutdown(s, TRUE), "return",
         IF IsSome(s.scheduled_shutdown_at_ms) THEN "true" ELSE "false", 0)

stop_sound(s) == Note(bump_generation(s), "stop_sound", "", 0)

\* get_battery_time, lines 1556-1559: the time since battery_start_ms, if there is one
get_battery_time(s) ==
    Note(command(s, "get_battery_time"), "return",
         IF IsSome(s.battery_start_ms) THEN "some" ELSE "none",
         IF IsSome(s.battery_start_ms) THEN Max(s.now - Get(s.battery_start_ms), 0) ELSE 0)

\* play_sound, lines 1682-1688: the stored settings only resolve the path of the sound
play_sound(s, sound_file, repeats) ==
    Note(play_sound_with_generation(s, sound_file, repeats), "return", "play_sound", 0)

update_history_interval(s, seconds) ==
    Note([s EXCEPT !.settings.history_interval = clamp_u64(seconds, 60, 3600, @)],
         "return", "update_history_interval", 0)

\* set_sound_config, lines 1795-1800: repeat_config.default
sound_repeats_default(st, value) ==
    [st EXCEPT !.alerts.ac_fault.sound_repeats = clamp_u64(value, 1, 30, @),
               !.alerts.battery_low.sound_repeats =
                   clamp_u64(value, 1, 30, st.alerts.ac_fault.sound_repeats),
               !.alerts.battery_critical.sound_repeats =
                   clamp_u64(value, 1, 30, st.alerts.ac_fault.sound_repeats)]

\* set_sound_config, lines 1802-1813: the repeats of each alert
sound_repeats_each(st, repeat_config) ==
    [st EXCEPT !.alerts.ac_fault.sound_repeats =
                   IF IsSome(repeat_config.ac_fault)
                   THEN clamp_u64(Get(repeat_config.ac_fault), 1, 30, @) ELSE @,
               !.alerts.battery_low.sound_repeats =
                   IF IsSome(repeat_config.battery_low)
                   THEN clamp_u64(Get(repeat_config.battery_low), 1, 30, @) ELSE @,
               !.alerts.battery_critical.sound_repeats =
                   IF IsSome(repeat_config.critical)
                   THEN clamp_u64(Get(repeat_config.critical), 1, 30, @) ELSE @]

\* set_sound_config, lines 1794-1814
sound_repeat_config(st, repeat_config) ==
    sound_repeats_each(
        IF IsSome(repeat_config.default)
        THEN sound_repeats_default(st, Get(repeat_config.default)) ELSE st,
        repeat_config)

\* set_sound_config, lines 1816-1818
sound_custom_path(st, config) ==
    IF IsSome(config.custom_sounds_path)
    THEN [st EXCEPT !.custom_sounds_path = Get(config.custom_sounds_path)] ELSE st

set_sound_config(s, config) ==
    Note([s EXCEPT !.settings =
              sound_custom_path(
                  IF IsSome(config.repeat_config)
                  THEN sound_repeat_config(@, Get(config.repeat_config)) ELSE @,
                  config)],
         "return", "set_sound_config", 0)

set_custom_sounds_path(s, sound_path) ==
    Note([s EXCEPT !.settings.custom_sounds_path = sound_path],
         "return", "set_custom_sounds_path", 0)

(***************************************************************************)
(* Inputs                                                                  *)
(***************************************************************************)
BatteryLevels == {5, 15, 80}

Snapshots ==
    { [utility_fail |-> TRUE, battery_low |-> FALSE, battery_percent |-> p] : p \in BatteryLevels }
    \cup { [utility_fail |-> TRUE, battery_low |-> TRUE, battery_percent |-> 80],
           [utility_fail |-> FALSE, battery_low |-> FALSE, battery_percent |-> 80] }

\* settings as the frontend may send them, before normalize
QuietSettings ==
    [DefaultSettings EXCEPT !.alerts.ac_fault.play_sound = FALSE,
                            !.alerts.battery_low.play_sound = FALSE,
                            !.alerts.battery_critical.play_sound = FALSE]

SettingsInputs ==
    { [DefaultSettings EXCEPT !.alerts.ac_fault.play_sound = FALSE,
                              !.alerts.battery_low.play_sound = FALSE],
      [DefaultSettings EXCEPT !.monitor_only_mode = TRUE],
      [QuietSettings EXCEPT !.shutdown_pc.on_ac_fault.delay_minutes = 2,
                            !.shutdown_pc.on_battery_low.enabled = TRUE,
                            !.shutdown_pc.on_battery_critical.enabled = FALSE,
                            !.shutdown_pc.action = "hibernate"],
      [QuietSettings EXCEPT !.shutdown_pc.on_ac_fault.enabled = FALSE,
                            !.shutdown_pc.on_ac_fault.delay_minutes = 0,
                            !.low_battery_threshold = 3,
                            !.critical_battery_threshold = 40] }

\* minutes given to trigger_shutdown
MinuteInputs == {0, 2, 200}

\* What the environment does during one poll iteration.
EnvQuiet ==
    [ hid_init_ok |-> TRUE, refresh_due |-> FALSE, refresh_ok |-> TRUE,
      found |-> TRUE, open_ok |-> TRUE, read |-> "empty",
      status |-> [utility_fail |-> FALSE, battery_low |-> FALSE, battery_percent |-> 80],
      sound_file |-> TRUE, spawn_ok |-> TRUE, history_due |-> FALSE ]

\* the device answers, fails to answer, or is absent
EnvDevice ==
    { [EnvQuiet EXCEPT !.read = "status", !.status = x] : x \in Snapshots }
    \cup { [EnvQuiet EXCEPT !.read = "err"],
           [EnvQuiet EXCEPT !.found = FALSE] }

\* the HID layer fails
EnvHid ==
    { [EnvQuiet EXCEPT !.hid_init_ok = FALSE],
      [EnvQuiet EXCEPT !.refresh_due = TRUE, !.refresh_ok = FALSE],
      [EnvQuiet EXCEPT !.open_ok = FALSE] }

(***************************************************************************)
(* Init and the actions with every handler atomic.                         *)
(***************************************************************************)
\* no snapshot was handled yet
NoRun == [len |-> 0, trans |-> 0]
NoRuns == [low |-> NoRun, critical |-> NoRun]

\* AppState::new, but for the settings it loads
Fresh ==
    /\ is_connected = FALSE
    /\ has_emitted_disconnected = FALSE
    /\ is_on_battery = FALSE
    /\ was_battery_low = FALSE
    /\ was_battery_critical = FALSE
    /\ battery_start_ms = None
    /\ last_status = None
    /\ scheduled_shutdown_at_ms = None
    /\ scheduled_shutdown_reason = None
    /\ last_error = None
    /\ sound_generation = 0
    /\ tasks = << >>
    /\ api = FALSE
    /\ connected_device = FALSE
    /\ pollPc = "run"
    /\ now = 0
    /\ out = << >>
    /\ req_min = None
    /\ cancel_done = NotCancelled
    /\ ac_run = [len |-> 0, trans |-> 0, logs |-> 0]
    /\ stream_pos = 0
    /\ thr = << >>
    /\ battery_run = NoRuns

\* the history scenario aside, the two lists are not tracked
NoHistory ==
    /\ events = << >>
    /\ data_history = << >>

Init ==
    /\ settings \in { normalize(x) : x \in SettingsInputs }
    /\ Fresh
    /\ NoHistory

\* one iteration of the poll loop, its sleep included
PollLoop ==
    /\ pollPc = "run"
    /\ \E env \in EnvDevice : Commit(poll_iteration(Pack, settings, env))
    /\ UNCHANGED << pollPc, now, stream_pos, thr, history, battery_run >>

\* a minute passes
Tick ==
    /\ now < MaxNow
    /\ now' = now + 1
    /\ out' = << >>
    /\ UNCHANGED << settings, is_connected, has_emitted_disconnected, is_on_battery,
                    was_battery_low, was_battery_critical, battery_start_ms, last_status,
                    scheduled_shutdown_at_ms, scheduled_shutdown_reason, last_error,
                    sound_generation, tasks, api, connected_device, pollPc,
                    req_min, cancel_done, ac_run, stream_pos, thr, history, battery_run >>

SaveSettings ==
    /\ \E new_settings \in SettingsInputs : Commit(save_settings(Pack, new_settings))
    /\ UNCHANGED << pollPc, now, stream_pos, thr, history, battery_run >>

TriggerShutdown ==
    /\ \E minutes \in MinuteInputs : Commit(trigger_shutdown(Pack, minutes))
    /\ UNCHANGED << pollPc, now, stream_pos, thr, history, battery_run >>

CancelShutdown ==
    /\ Commit(cancel_shutdown(Pack))
    /\ UNCHANGED << pollPc, now, stream_pos, thr, history, battery_run >>

Next ==
    \/ PollLoop
    \/ Tick
    \/ SaveSettings
    \/ TriggerShutdown
    \/ CancelShutdown

Spec == Init /\ [][Next]_vars

(***************************************************************************)
(* The poll thread on its own schedule: an iteration, then its sleep.  The *)
(* thread is spawned once and loops until the application exits, so both   *)
(* of its steps are weakly fair.  The HID layer may fail at every step.    *)
(***************************************************************************)
PollRun ==
    /\ pollPc = "run"
    /\ \E env \in EnvDevice \cup EnvHid : Commit(poll_iteration(Pack, settings, env))
    /\ pollPc' = "sleep"
    /\ UNCHANGED << now, stream_pos, thr, history, battery_run >>

\* thread::sleep returns
PollWake ==
    /\ pollPc = "sleep"
    /\ pollPc' = "run"
    /\ UNCHANGED << settings, is_connected, has_emitted_disconnected, is_on_battery,
                    was_battery_low, was_battery_critical, battery_start_ms, last_status,
                    scheduled_shutdown_at_ms, scheduled_shutdown_reason, last_error,
                    sound_generation, tasks, api, connected_device, now, out,
                    req_min, cancel_done, ac_run, stream_pos, thr, history, battery_run >>

NextPoll ==
    \/ PollRun
    \/ PollWake
    \/ Tick
    \/ TriggerShutdown

SpecPoll == Init /\ [][NextPoll]_vars /\ WF_vars(PollRun) /\ WF_vars(PollWake)

(***************************************************************************)
(* The end-to-end scenario: the device delivers a fixed stream of          *)
(* snapshots to a freshly started monitor whose thresholds are 20 and 10,  *)
(* while time passes, reads time out and the user schedules and cancels.   *)
(***************************************************************************)
\* the stream: 3 snapshots with utilityFail false, 2 on battery at 80%, 1 on battery at 15%
Stream == << "ac", "ac", "ac", "battery80", "battery80", "battery15" >>
StreamLen == Len(Stream)

\* the snapshots the device may deliver at position i of the stream (with utilityFail
\* false, whatever the battery and its flag)
StreamAt(i) ==
    CASE Stream[i] = "ac" ->
             { [utility_fail |-> FALSE, battery_low |-> f, battery_percent |-> p] :
                   f \in BOOLEAN, p \in {5, 80} }
      [] Stream[i] = "battery80" ->
             { [utility_fail |-> TRUE, battery_low |-> FALSE, battery_percent |-> 80] }
      [] OTHER ->
             { [utility_fail |-> TRUE, battery_low |-> FALSE, battery_percent |-> 15] }

\* settings with the thresholds 20 and 10
SettingsE2E ==
    { DefaultSettings,
      QuietSettings,
      [DefaultSettings EXCEPT !.monitor_only_mode = TRUE],
      [QuietSettings EXCEPT !.shutdown_pc.on_ac_fault.enabled = FALSE,
                            !.shutdown_pc.on_battery_low.enabled = TRUE,
                            !.alerts.battery_low.show_popup = FALSE] }

InitE2E ==
    /\ settings \in { normalize(x) : x \in SettingsE2E }
    /\ Fresh
    /\ NoHistory

\* a poll iteration that reads the next snapshot of the stream
FeedSnapshot ==
    /\ stream_pos < StreamLen
    /\ \E status \in StreamAt(stream_pos + 1) :
           Commit(poll_iteration(Pack, settings, [EnvQuiet EXCEPT !.read = "status", !.status = status]))
    /\ stream_pos' = stream_pos + 1
    /\ UNCHANGED << pollPc, now, thr, history, battery_run >>

\* a poll iteration whose read times out
PollEmpty ==
    /\ Commit(poll_iteration(Pack, settings, EnvQuiet))
    /\ UNCHANGED << pollPc, now, stream_pos, thr, history, battery_run >>

NextE2E ==
    \/ FeedSnapshot
    \/ PollEmpty
    \/ Tick
    \/ TriggerShutdown
    \/ CancelShutdown

SpecE2E == InitE2E /\ [][NextE2E]_vars

(***************************************************************************)
(* The sound player: the play_sound and stop_sound commands, the poll      *)
(* thread's alerts, AC restores and disconnects, and the playback tasks,   *)
(* each stepping through its loop on a thread of its own.                  *)
(***************************************************************************)
SettingsSound ==
    [DefaultSettings EXCEPT !.alerts.ac_fault.sound_repeats = 1,
                            !.alerts.battery_low.play_sound = FALSE,
                            !.alerts.battery_critical.sound_repeats = 2]

InitSound ==
    /\ settings = normalize(SettingsSound)
    /\ Fresh
    /\ NoHistory

\* the device reports a battery at 5% without AC, reports AC, or fails to answer
EnvSound ==
    { [EnvQuiet EXCEPT !.read = "status",
                       !.status = [utility_fail |-> TRUE, battery_low |-> FALSE, battery_percent |-> 5]],
      [EnvQuiet EXCEPT !.read = "status"],
      [EnvQuiet EXCEPT !.read = "err"] }

\* what play_sound is called with: a sound file that resolves and plays, twice; or none
\* (the fallback beep) and no repeat count
PlayInputs ==
    { [sound_file |-> TRUE, repeats |-> 2], [sound_file |-> FALSE, repeats |-> 0] }

\* everything but tasks and out
notTasks ==
    << settings, is_connected, has_emitted_disconnected, is_on_battery,
       was_battery_low, was_battery_critical, battery_start_ms, last_status,
       scheduled_shutdown_at_ms, scheduled_shutdown_reason, last_error,
       sound_generation, api, connected_device, pollPc, now,
       req_min, cancel_done, ac_run, stream_pos, thr, history, battery_run >>

StopSound ==
    /\ CommitUpTo(stop_sound(Pack), MaxTokens)
    /\ UNCHANGED << pollPc, now, stream_pos, thr, history, battery_run >>

PlaySound ==
    /\ \E x \in PlayInputs : CommitUpTo(play_sound(Pack, x.sound_file, x.repeats), MaxTokens)
    /\ UNCHANGED << pollPc, now, stream_pos, thr, history, battery_run >>

PollSound ==
    /\ \E env \in EnvSound : CommitUpTo(poll_iteration(Pack, settings, env), MaxTokens)
    /\ UNCHANGED << pollPc, now, stream_pos, thr, history, battery_run >>

PlaybackCheck ==
    /\ \E i \in 1..Len(tasks) :
           /\ tasks[i].pc = "check"
           /\ tasks' = [tasks EXCEPT ![i] = playback_check(@, sound_generation)]
    /\ out' = << >>
    /\ UNCHANGED notTasks

PlaybackStart ==
    /\ \E i \in 1..Len(tasks) :
           /\ tasks[i].pc = "start"
           /\ tasks' = [tasks EXCEPT ![i] = playback_start(@)]
    /\ out' = << >>
    /\ UNCHANGED notTasks

PlaybackWait ==
    /\ \E i \in 1..Len(tasks), sink_empty \in BOOLEAN :
           /\ tasks[i].pc = "playing"
           /\ tasks' = [tasks EXCEPT ![i] = playback_wait(@, sound_generation, sink_empty)]
    /\ out' = << >>
    /\ UNCHANGED notTasks

PlaybackAfter ==
    /\ \E i \in 1..Len(tasks) :
           /\ tasks[i].pc = "after"
           /\ tasks' = [tasks EXCEPT ![i] = playback_after(@, sound_generation)]
    /\ out' = << >>
    /\ UNCHANGED notTasks

NextSound ==
    \/ StopSound
    \/ PlaySound
    \/ PollSound
    \/ PlaybackCheck
    \/ PlaybackStart
    \/ PlaybackWait
    \/ PlaybackAfter

SpecSound == InitSound /\ [][NextSound]_vars

\* one step of a playback task, wherever it is
playback_step(task, generation, sink_empty) ==
    CASE task.pc = "check" -> playback_check(task, generation)
      [] task.pc = "start" -> playback_start(task)
      [] task.pc = "playing" -> playback_wait(task, generation, sink_empty)
      [] task.pc = "after" -> playback_after(task, generation)
      [] OTHER -> task

\* the i-th playback task gets on: a turn of the wait for the sink that finds the
\* sound still playing is not one
TaskStep(i) ==
    /\ i \in 1..Len(tasks)
    /\ \E sink_empty \in BOOLEAN :
           tasks' = [tasks EXCEPT ![i] = playback_step(@, sound_generation, sink_empty)]
    /\ tasks'[i] # tasks[i]
    /\ out' = << >>
    /\ UNCHANGED notTasks

\* spawn_blocking, line 696: each task has a thread of the blocking pool and goes on
\* when it can; a sound file ends, so the wait of lines 712-718 does not turn forever
SpecSoundFair ==
    InitSound /\ [][NextSound]_vars /\ \A i \in 1..MaxTokens : WF_vars(TaskStep(i))

(***************************************************************************)
(* The poll thread beside the commands.  The commands run to completion    *)
(* one after the other; the poll thread, spawned by start_ups_monitor,     *)
(* runs beside them: it clones the settings (lines 1262, 1071) and then    *)
(* works with the clone, while a command may store new settings.           *)
(***************************************************************************)
\* the poll thread takes its clone of the settings
PollClone ==
    /\ thr = None
    /\ thr' = Some(settings)
    /\ UNCHANGED << settings, is_connected, has_emitted_disconnected, is_on_battery,
                    was_battery_low, was_battery_critical, battery_start_ms, last_status,
                    scheduled_shutdown_at_ms, scheduled_shutdown_reason, last_error,
                    sound_generation, tasks, api, connected_device, pollPc, now, out,
                    req_min, cancel_done, ac_run, stream_pos, history, battery_run >>

\* the rest of the iteration, with the clone
PollWithClone ==
    /\ IsSome(thr)
    /\ \E env \in EnvDevice : Commit(poll_iteration(Pack, Get(thr), env))
    /\ thr' = None
    /\ UNCHANGED << pollPc, now, stream_pos, history, battery_run >>

NextConc ==
    \/ PollClone
    \/ PollWithClone
    \/ SaveSettings
    \/ TriggerShutdown

SpecConc == Init /\ [][NextConc]_vars

(***************************************************************************)
(* The commands of the frontend beside the poll loop, every handler        *)
(* atomic: settings are saved, sounds played, shutdowns triggered,         *)
(* rehearsed and cancelled while the device reports and the system         *)
(* command may fail to spawn.                                              *)
(***************************************************************************)
\* the device reports a battery at 5% without AC, or AC; the history interval has elapsed
\* or not; the system command spawns or not
EnvCmd ==
    { [EnvQuiet EXCEPT !.read = "status", !.status = x, !.spawn_ok = ok] :
          x \in { [utility_fail |-> TRUE, battery_low |-> FALSE, battery_percent |-> 5],
                  [utility_fail |-> FALSE, battery_low |-> FALSE, battery_percent |-> 80] },
          ok \in BOOLEAN }

\* the alert sound and the shutdown on battery-critical are on; or monitor-only
SettingsCmd ==
    { [DefaultSettings EXCEPT !.alerts.ac_fault.play_sound = FALSE,
                              !.alerts.battery_low.play_sound = FALSE,
                              !.shutdown_pc.on_ac_fault.enabled = FALSE],
      [DefaultSettings EXCEPT !.monitor_only_mode = TRUE] }

InitCmd ==
    /\ settings \in { normalize(x) : x \in SettingsCmd }
    /\ Fresh
    /\ NoHistory

SaveSettingsCmd ==
    /\ \E new_settings \in SettingsCmd : Commit(save_settings(Pack, new_settings))
    /\ UNCHANGED << pollPc, now, stream_pos, thr, history, battery_run >>

PollCmd ==
    /\ \E env \in EnvCmd : Commit(poll_iteration(Pack, settings, env))
    /\ UNCHANGED << pollPc, now, stream_pos, thr, history, battery_run >>

\* what simulate_shutdown_flow is called with
SimulateInputs ==
    { [minutes |-> None, auto_cancel_ms |-> None],
      [minutes |-> Some(200), auto_cancel_ms |-> Some(0)] }

SimulateShutdownFlow ==
    /\ \E x \in SimulateInputs : Commit(simulate_shutdown_flow(Pack, x.minutes, x.auto_cancel_ms))
    /\ UNCHANGED << pollPc, now, stream_pos, thr, history, battery_run >>

PlaySoundCmd ==
    /\ \E x \in PlayInputs : Commit(play_sound(Pack, x.sound_file, x.repeats))
    /\ UNCHANGED << pollPc, now, stream_pos, thr, history, battery_run >>

NextCmd ==
    \/ PollCmd
    \/ Tick
    \/ SaveSettingsCmd
    \/ PlaySoundCmd
    \/ TriggerShutdown
    \/ SimulateShutdownFlow
    \/ CancelShutdown

SpecCmd == InitCmd /\ [][NextCmd]_vars

(***************************************************************************)
(* Properties of the scheduler and the state machine, under Spec.          *)
(***************************************************************************)
\* a poll tick handled a status snapshot
SnapshotHandled(o) == HasOut(o, "emit", "ups-data")

\* C1: earliest-wins scheduling.  The pending deadline is the minimum of the deadlines
\* requested since the last cancel or firing (none pending when none was requested) ...
C1_PendingIsMin == scheduled_shutdown_at_ms = req_min

\* ... and a step that makes one request whose deadline is not earlier than the pending
\* one, and fires nothing, leaves deadline and reason unchanged and emits no
\* shutdown-scheduled event.
C1_NotEarlierIsNoop ==
    \A i \in Requests(out') :
        ( /\ Cardinality(Requests(out')) = 1
          /\ SystemActions(out') = {}
          /\ IsSome(scheduled_shutdown_at_ms)
          /\ out'[i].b >= Get(scheduled_shutdown_at_ms) )
        => /\ scheduled_shutdown_at_ms' = scheduled_shutdown_at_ms
           /\ scheduled_shutdown_reason' = scheduled_shutdown_reason
           /\ ~HasOut(out', "emit", "shutdown-scheduled")

C1_EarliestWins == []C1_PendingIsMin /\ [][C1_NotEarlierIsNoop]_vars

\* a request for a later deadline was just made and the earlier one is still pending
C1_Witness ==
    \E i \in Requests(out) :
        /\ IsSome(scheduled_shutdown_at_ms)
        /\ out[i].b > Get(scheduled_shutdown_at_ms)
        /\ ~HasOut(out, "emit", "shutdown-scheduled")

\* C2: cancellation.  Once a cancel_scheduled_shutdown call has completed, a step that
\* makes no schedule request (a poll tick at any time, also at or past the cancelled
\* deadline) executes no system action.
C2_NoActionAfterCancel ==
    [][ (cancel_done.done /\ Requests(out') = {}) => SystemActions(out') = {} ]_vars

\* a poll tick has handled a snapshot at or past a deadline that an earlier cancel removed
C2_Witness ==
    /\ cancel_done.done
    /\ IsSome(cancel_done.deadline)
    /\ now >= Get(cancel_done.deadline)
    /\ SnapshotHandled(out)
    /\ ~HasOut(out, "emit", "shutdown-cancelled")
    /\ SystemActions(out) = {}

\* C4: latch idempotence.  During a run of N >= 1 consecutive utilityFail snapshots
\* that started from not-on-battery, with no disconnect, exactly one AcFault dispatch
\* and one 'AC Fault' log_event call have been made.
C4_OneAcFaultPerRun ==
    ac_run.len >= 1 => (ac_run.trans = 1 /\ ac_run.logs = 1)

\* the run is at least two snapshots long
C4_Witness == ac_run.len >= 2 /\ SnapshotHandled(out) /\ is_on_battery

AcFaultDelay == settings.shutdown_pc.on_ac_fault.delay_minutes

\* the premise of C6 in the state before the tick, the AcFault dispatch in the tick
AcFaultEntered(later) ==
    /\ HasOut(out', "dispatch", "AcFault")
    /\ ~settings.monitor_only_mode
    /\ settings.shutdown_pc.on_ac_fault.enabled
    /\ \/ ~IsSome(scheduled_shutdown_at_ms)
       \/ Get(scheduled_shutdown_at_ms) >= now + AcFaultDelay + later

AcFaultScheduled ==
    /\ scheduled_shutdown_at_ms' = Some(now + AcFaultDelay)
    /\ scheduled_shutdown_reason' = Some("ac-fault")

\* C6 as stated: on an AC-fault-entered transition with shutdown-on-AC-fault enabled
\* with delay d, monitor-only off and no earlier deadline pending, after the tick the
\* deadline now + d is pending with reason "ac-fault".
C6_Original == [][ AcFaultEntered(0) => AcFaultScheduled ]_vars

\* C6 amended: ... and no deadline equal to now + d pending either, and no request for
\* a deadline earlier than now + d made by a battery-low or battery-critical
\* transition of the same snapshot.
C6_AcFaultSchedules ==
    [][ ( /\ AcFaultEntered(1)
          /\ \A i \in Requests(out') : out'[i].b >= now + AcFaultDelay )
        => AcFaultScheduled ]_vars

\* the tick of an AC-fault-entered transition left the 18-minute deadline pending
C6_Witness ==
    /\ HasOut(out, "dispatch", "AcFault")
    /\ scheduled_shutdown_at_ms = Some(now + 18)
    /\ scheduled_shutdown_reason = Some("ac-fault")

\* the tick handled a snapshot with utilityFail = false
AcSnapshot(o, ls) == SnapshotHandled(o) /\ IsSome(ls) /\ ~Get(ls).utility_fail

\* C7: AC-fault-cleared.  A tick that handles a snapshot with utilityFail = false while
\* the on-battery latch is set ends with no deadline pending and no system action
\* executed, the battery timer cleared, both battery latches false, and the sound
\* generation strictly greater than before.
C7_AcCleared ==
    [][ (is_on_battery /\ AcSnapshot(out', last_status'))
        => /\ ~IsSome(scheduled_shutdown_at_ms')
           /\ ~IsSome(scheduled_shutdown_reason')
           /\ SystemActions(out') = {}
           /\ battery_start_ms' = None
           /\ ~was_battery_low'
           /\ ~was_battery_critical'
           /\ ~is_on_battery'
           /\ sound_generation' > sound_generation ]_vars

\* AC was restored on a tick on which the pending deadline was already due
C7_Witness ==
    /\ AcSnapshot(out, last_status)
    /\ HasOut(out, "emit", "shutdown-cancelled")
    /\ IsSome(cancel_done.deadline)
    /\ now >= Get(cancel_done.deadline)

(***************************************************************************)
(* Properties of the poll loop, under SpecPoll.                            *)
(***************************************************************************)
\* a shutdown deadline is pending and due, and monitor-only mode is off
Due ==
    /\ ~settings.monitor_only_mode
    /\ IsSome(scheduled_shutdown_at_ms)
    /\ now >= Get(scheduled_shutdown_at_ms)

\* C3: a missed deadline is never allowed.  The poll loop checks the deadline on every
\* iteration, whatever the device and the HID layer do, so a deadline that is due does
\* not stay pending: it is executed or cancelled.
C3_DueIsHandled == Due ~> ~Due

(***************************************************************************)
(* Properties of the end-to-end scenario, under SpecE2E.                   *)
(***************************************************************************)
\* the alert kinds a step dispatched, and how many dispatches it made
Dispatched(o) == { o[i].a : i \in { j \in 1..Len(o) : o[j].k = "dispatch" } }
DispatchCount(o) == Cardinality({ j \in 1..Len(o) : o[j].k = "dispatch" })

ExpectedE2E(i) ==
    IF i = 4 THEN {"AcFault"} ELSE IF i = 6 THEN {"BatteryLow"} ELSE {}

\* C5: end-to-end transition order.  With thresholds 20 and 10 the stream of 3 snapshots
\* off battery, 2 on battery at 80% and 1 on battery at 15% dispatches nothing on
\* snapshots 1-3 and 5, AcFault (once) on snapshot 4, BatteryLow (once) on snapshot 6,
\* and BatteryCritical never; no other step dispatches anything.
C5_EndToEnd ==
    [][ /\ Dispatched(out') = (IF stream_pos' # stream_pos THEN ExpectedE2E(stream_pos') ELSE {})
        /\ DispatchCount(out') = Cardinality(Dispatched(out')) ]_vars

\* the sixth snapshot has been handled and dispatched BatteryLow
C5_Witness == stream_pos = StreamLen /\ HasOut(out, "dispatch", "BatteryLow")

(***************************************************************************)
(* Properties of the sound player, under SpecSound.                        *)
(***************************************************************************)
\* the stop_sound and play_sound_with_generation calls a step made
SoundCalls(o) == { i \in 1..Len(o) : o[i].k = "stop_sound" \/ o[i].k = "play" }
Plays(o) == { i \in 1..Len(o) : o[i].k = "play" }

\* the tokens of all the playback tasks spawned so far are pairwise distinct
C8_DistinctTokens ==
    \A i, j \in 1..Len(tasks) : i # j => tasks[i].token # tasks[j].token

\* no step decreases the counter; a step increases it by at least the number of
\* stop_sound and play_sound_with_generation calls it makes; each play spawns one task
C8_CallsIncrease ==
    /\ sound_generation' >= sound_generation + Cardinality(SoundCalls(out'))
    /\ Len(tasks') = Len(tasks) + Cardinality(Plays(out'))

\* C8: sound generation monotonicity.  The counter never decreases, every stop_sound
\* and every play_sound_with_generation call strictly increases it, and n play calls,
\* interleaved with any stops, from the commands and from the poll thread, obtain n
\* pairwise distinct tokens.
C8_GenerationMonotonic == []C8_DistinctTokens /\ [][C8_CallsIncrease]_vars

\* two plays with a stop in between have obtained their tokens
C8_Witness ==
    \E i, j \in 1..Len(tasks) : tasks[j].token >= tasks[i].token + 2

\* C9: a playback task holding a stale token never starts a new repetition.  Under any
\* interleaving, in a state where the counter differs from a task's token, no step of
\* that task starts a sound file or a fallback beep.
C9_StaleStartsNothing ==
    [][ \A i \in 1..Len(tasks) :
            sound_generation # tasks[i].token => tasks'[i].started = tasks[i].started ]_vars

(***************************************************************************)
(* Properties of the monitor-only transition, under SpecConc.              *)
(***************************************************************************)
\* C10: the monitor-only transition cancels any pending shutdown.  Whenever the stored
\* settings have monitor-only mode on and no operation is in progress (the poll thread
\* is between two iterations, the commands have returned), no shutdown deadline is
\* pending.
C10_MonitorOnlyNoDeadline ==
    (settings.monitor_only_mode /\ thr = None) => ~IsSome(scheduled_shutdown_at_ms)

(***************************************************************************)
(* The settings commands: whatever the frontend sends, zero and            *)
(* out-of-range values included.                                           *)
(***************************************************************************)
\* thresholds: zero, below the range, inside, above
ThresholdInputs == {0, 3, 10, 25, 60}

SettingsWide ==
    { [DefaultSettings EXCEPT !.monitor_only_mode = m,
                              !.low_battery_threshold = low,
                              !.critical_battery_threshold = critical] :
          m \in BOOLEAN, low \in ThresholdInputs, critical \in ThresholdInputs }

InitSettings ==
    /\ settings \in { normalize(x) : x \in SettingsWide }
    /\ Fresh
    /\ NoHistory

SecondsInputs == {0, 30, 3600}

NoRepeats == [default |-> None, ac_fault |-> None, battery_low |-> None, critical |-> None]

SoundConfigInputs ==
    { [repeat_config |-> None, custom_sounds_path |-> Some(Some("sounds")), repeat_delay |-> Some(0)],
      [repeat_config |-> Some([NoRepeats EXCEPT !.default = Some(0), !.critical = Some(99)]),
       custom_sounds_path |-> None, repeat_delay |-> None],
      [repeat_config |-> Some([NoRepeats EXCEPT !.default = Some(7), !.ac_fault = Some(0)]),
       custom_sounds_path |-> Some(None), repeat_delay |-> None] }

SaveSettingsWide ==
    /\ \E new_settings \in SettingsWide : Commit(save_settings(Pack, new_settings))
    /\ UNCHANGED << pollPc, now, stream_pos, thr, history, battery_run >>

UpdateHistoryInterval ==
    /\ \E seconds \in SecondsInputs : Commit(update_history_interval(Pack, seconds))
    /\ UNCHANGED << pollPc, now, stream_pos, thr, history, battery_run >>

SetSoundConfig ==
    /\ \E config \in SoundConfigInputs : Commit(set_sound_config(Pack, config))
    /\ UNCHANGED << pollPc, now, stream_pos, thr, history, battery_run >>

SetCustomSoundsPath ==
    /\ \E sound_path \in {None, Some("sounds")} : Commit(set_custom_sounds_path(Pack, sound_path))
    /\ UNCHANGED << pollPc, now, stream_pos, thr, history, battery_run >>

NextSettings ==
    \/ SaveSettingsWide
    \/ UpdateHistoryInterval
    \/ SetSoundConfig
    \/ SetCustomSoundsPath

SpecSettings == InitSettings /\ [][NextSettings]_vars

(***************************************************************************)
(* The decoder feeding the engine: the device sends status frames with any *)
(* battery voltage from 0 to MaxTenths tenths of a volt, on AC, with the   *)
(* battery-low flag or without.                                            *)
(***************************************************************************)
InitBattery ==
    /\ settings = normalize(QuietSettings)
    /\ Fresh
    /\ NoHistory

PollBattery ==
    /\ \E battery_voltage \in 0..MaxTenths, battery_low \in BOOLEAN :
           Commit(poll_iteration(Pack, settings,
                      [EnvQuiet EXCEPT !.read = "status",
                                       !.status = parse_ups_string(battery_voltage, FALSE, battery_low)]))
    /\ UNCHANGED << pollPc, now, stream_pos, thr, history, battery_run >>

NextBattery ==
    \/ PollBattery
    \/ PollEmpty

SpecBattery == InitBattery /\ [][NextBattery]_vars

(***************************************************************************)
(* The decoder in the poll loop: the device answers every read with one of *)
(* a few buffers, well-formed status frames, frames cut short, a version   *)
(* response and noise, while time passes.  thr holds the locals of         *)
(* read_one_packet: the bytes last read and what decode_packet returned.   *)
(***************************************************************************)
One == << Digit0 + 1 >>
\* "20": 20.0 V, an empty battery
Volts20 == << Digit0 + 2, Digit0 >>
\* "24.5"
Volts245 == << Digit0 + 2, Digit0 + 4, Dot, Digit0 + 5 >>
\* "10000000": utility fail; "00000000": on AC
BitsOnBattery == [i \in 1..8 |-> IF i = 1 THEN Digit0 + 1 ELSE Digit0]
BitsOnAc == [i \in 1..8 |-> Digit0]

RECURSIVE join(_)
join(words) ==
    IF words = << >> THEN << >>
    ELSE IF Len(words) = 1 THEN words[1]
    ELSE words[1] \o << Blank >> \o join(Tail(words))

\* the first n fields of a status line, and the line
StatusFields(volts, bits, n) == SubSeq(<< One, One, One, One, One, volts, One, bits, One >>, 1, n)
StatusText(volts, bits, n) == << LeftParen >> \o join(StatusFields(volts, bits, n))

\* a HID report: the report id, the text, a carriage return, padding
Report(text) == << 0 >> \o text \o << CarriageReturn, 0, 0 >>

FrameInputs ==
    { Report(StatusText(v, b, 8)) : v \in {Volts20, Volts245}, b \in {BitsOnBattery, BitsOnAc} }
    \cup { Report(StatusText(Volts20, BitsOnBattery, n)) : n \in {0, 1, 7, 9} }
    \cup { \* a battery voltage that is no number
           Report(StatusText(<< LetterV >>, BitsOnAc, 8)),
           \* "(V 1": cut short, with the letter of a version response
           Report(<< LeftParen, LetterV, Blank >> \o One),
           \* "#V1.1": a version response
           Report(<< Hash, LetterV >> \o One \o << Dot >> \o One),
           \* "1 1": noise
           Report(join(<< One, One >>)),
           \* no report id: the '(' is taken for it
           StatusText(Volts20, BitsOnBattery, 8),
           \* blanks and a second '(' in front, a blank behind, a byte that is not printable
           Report(<< Blank, LeftParen, 7, LeftParen, Blank >>
                  \o join(StatusFields(Volts20, BitsOnBattery, 8)) \o << Blank >>),
           \* the carriage return comes before the eighth field
           << 0, LeftParen >> \o join(StatusFields(Volts20, BitsOnBattery, 7))
               \o << CarriageReturn, Blank >> \o BitsOnBattery }

InitDecode ==
    /\ settings = normalize(QuietSettings)
    /\ Fresh
    /\ NoHistory

\* read_one_packet, lines 1047-1057: a status packet is handled, anything else is not
read_env(decoded) ==
    IF IsSome(decoded) /\ Get(decoded).packet = "Status"
    THEN [EnvQuiet EXCEPT !.read = "status", !.status = Get(decoded).status]
    ELSE EnvQuiet

\* a poll iteration whose read returns the bytes raw_data
PollDecode ==
    /\ \E raw_data \in FrameInputs :
           /\ Commit(poll_iteration(Pack, settings, read_env(decode_packet(raw_data, now))))
           /\ thr' = Some([raw_data |-> raw_data, decoded |-> decode_packet(raw_data, now)])
    /\ UNCHANGED << pollPc, now, stream_pos, history, battery_run >>

NextDecode ==
    \/ PollDecode
    \/ Tick

SpecDecode == InitDecode /\ [][NextDecode]_vars

(***************************************************************************)
(* The battery state machine over runs of snapshots: the device reports    *)
(* any battery level, fails and disappears, the thresholds are changed,    *)
(* shutdowns are triggered and the battery time is queried, while          *)
(* battery_run records how long each battery condition has held and how    *)
(* many transitions were dispatched meanwhile.                             *)
(***************************************************************************)
\* thresholds 20 and 10, shutdown on AC fault (18 minutes) and on battery critical; or
\* thresholds 50 and 15, shutdown on AC fault (2 minutes), battery low and battery critical
SettingsLatch ==
    { QuietSettings,
      [QuietSettings EXCEPT !.shutdown_pc.on_ac_fault.delay_minutes = 2,
                            !.shutdown_pc.on_battery_low.enabled = TRUE,
                            !.low_battery_threshold = 50,
                            !.critical_battery_threshold = 15] }

InitLatch ==
    /\ settings \in { normalize(x) : x \in SettingsLatch }
    /\ Fresh
    /\ NoHistory

\* the battery-low and battery-critical conditions of a snapshot
LowCondition(st, status) ==
    status.utility_fail
    /\ (status.battery_low \/ status.battery_percent <= st.low_battery_threshold)
CriticalCondition(st, status) ==
    status.utility_fail /\ status.battery_percent <= st.critical_battery_threshold

\* a run after one more snapshot: it goes on if the condition holds, with the transitions
\* dispatched on the snapshot, and is over if not
run_after(run, holds, dispatched) ==
    IF holds THEN [len |-> Min(run.len + 1, MaxRun), trans |-> run.trans + dispatched]
    ELSE NoRun

\* the runs after a poll iteration: one that leaves the device marked disconnected ends
\* them, a read without a snapshot leaves them
battery_run_after(runs, st, env, o, connected) ==
    IF ~connected THEN NoRuns
    ELSE IF env.read = "status"
    THEN [low |-> run_after(runs.low, LowCondition(st, env.status),
                            CountOut(o, "dispatch", "BatteryLow")),
          critical |-> run_after(runs.critical, CriticalCondition(st, env.status),
                                 CountOut(o, "dispatch", "BatteryCritical"))]
    ELSE runs

PollLatch ==
    /\ \E env \in EnvDevice \cup {EnvQuiet} :
           /\ Commit(poll_iteration(Pack, settings, env))
           /\ battery_run' = battery_run_after(battery_run, settings, env, out', is_connected')
    /\ UNCHANGED << pollPc, now, stream_pos, thr, history >>

SaveSettingsLatch ==
    /\ \E new_settings \in SettingsLatch : Commit(save_settings(Pack, new_settings))
    /\ UNCHANGED << pollPc, now, stream_pos, thr, history, battery_run >>

GetBatteryTime ==
    /\ Commit(get_battery_time(Pack))
    /\ UNCHANGED << pollPc, now, stream_pos, thr, history, battery_run >>

NextLatch ==
    \/ PollLatch
    \/ Tick
    \/ SaveSettingsLatch
    \/ GetBatteryTime
    \/ TriggerShutdown

SpecLatch == InitLatch /\ [][NextLatch]_vars

(***************************************************************************)
(* The history scenario: the events list and the telemetry history are     *)
(* tracked.  The events list was loaded empty, one short of full, or full; *)
(* the poll loop logs while the frontend switches monitor-only on and off. *)
(***************************************************************************)
\* a list of n events as loaded from events.json, newest first
EventsOfLen(n) == [i \in 1..n |-> [seq |-> n + 1 - i, name |-> "loaded"]]

EventsInputs == { EventsOfLen(n) : n \in {0, MAX_EVENTS - 1, MAX_EVENTS} }

\* history is saved and shutdown on AC fault is on; or monitor-only
SettingsHistory == { QuietSettings, [DefaultSettings EXCEPT !.monitor_only_mode = TRUE] }

InitHistory ==
    /\ settings \in { normalize(x) : x \in SettingsHistory }
    /\ Fresh
    /\ events \in EventsInputs
    /\ data_history = << >>

\* the device reports a battery at 5% without AC, or AC, the history interval elapsed or
\* not; or the read fails
EnvHistory ==
    { [EnvQuiet EXCEPT !.read = "status", !.status = x, !.history_due = d] :
          x \in { [utility_fail |-> TRUE, battery_low |-> FALSE, battery_percent |-> 5],
                  [utility_fail |-> FALSE, battery_low |-> FALSE, battery_percent |-> 80] },
          d \in BOOLEAN }
    \cup { [EnvQuiet EXCEPT !.read = "err"] }

\* the writes of the operation reach the lists; at most MaxWrites entries are added to each
WriteHistory ==
    /\ events' = events_after(events, out', 1)
    /\ data_history' = data_after(data_history, out', 1)
    /\ (IF events' = << >> THEN 0 ELSE events'[1].seq) <= MAX_EVENTS + MaxWrites
    /\ Len(data_history') <= MaxWrites

PollHistory ==
    /\ \E env \in EnvHistory : Commit(poll_iteration(Pack, settings, env))
    /\ WriteHistory
    /\ UNCHANGED << pollPc, now, stream_pos, thr, battery_run >>

SaveSettingsHistory ==
    /\ \E new_settings \in SettingsHistory : Commit(save_settings(Pack, new_settings))
    /\ WriteHistory
    /\ UNCHANGED << pollPc, now, stream_pos, thr, battery_run >>

NextHistory ==
    \/ PollHistory
    \/ SaveSettingsHistory

SpecHistory == InitHistory /\ [][NextHistory]_vars

(***************************************************************************)
(* The scheduler under interleaving.  The deadline and the reason are      *)
(* behind two locks, scheduled_shutdown_at_ms and scheduled_shutdown_      *)
(* reason, never held together: a step of SpecRace is what a thread does   *)
(* under one lock.  The poll thread and the command thread (the commands   *)
(* are synchronous, one at a time) each have a position and locals, kept   *)
(* in thr with two observations: setter, the reason of the request that    *)
(* stored the current deadline, and returned_true, the deadline for which  *)
(* cancel_shutdown last returned true, no deadline stored since.           *)
(***************************************************************************)
ThreadIdle ==
    [ pc |-> "idle", reason |-> "", minutes |-> 0, seen |-> None, had |-> FALSE ]

Quiescent ==
    [ poll |-> ThreadIdle, cmd |-> ThreadIdle, setter |-> None, returned_true |-> None ]

race == IF IsSome(thr) THEN Get(thr) ELSE Quiescent

SettingsRace ==
    { [QuietSettings EXCEPT !.shutdown_pc.on_ac_fault.delay_minutes = 1] }

InitRace ==
    /\ settings \in { normalize(x) : x \in SettingsRace }
    /\ Fresh
    /\ NoHistory

\* schedule_shutdown_after_minutes, lines 817-834, by thread t: the deadline is compared
\* and stored under its lock, the lock is dropped; without a replacement it returns
schedule_deadline_step(t, s, delay_minutes, reason) ==
    LET safe_minutes == safe_minutes_of(delay_minutes)
        target_ms == s.now + safe_minutes
        replaced == should_replace(s.scheduled_shutdown_at_ms, target_ms)
    IN /\ race[t].pc = "idle"
       /\ Commit(schedule_set_deadline(s, target_ms, reason))
       /\ thr' = Some([race EXCEPT
                         ![t] = IF replaced
                                THEN [ThreadIdle EXCEPT !.pc = "schedule", !.reason = reason,
                                                        !.minutes = safe_minutes]
                                ELSE ThreadIdle,
                         !.setter = IF replaced THEN Some(reason) ELSE @,
                         !.returned_true = IF replaced THEN None ELSE @])
       /\ UNCHANGED << pollPc, now, stream_pos, history, battery_run >>

\* schedule_shutdown_after_minutes, lines 836-844, by thread t: the reason, under its
\* own lock, then the event
schedule_reason_step(t, s) ==
    /\ race[t].pc = "schedule"
    /\ Commit(schedule_set_reason(s, race[t].minutes, race[t].reason))
    /\ thr' = Some([race EXCEPT ![t] = ThreadIdle])
    /\ UNCHANGED << pollPc, now, stream_pos, history, battery_run >>

\* handle_alert_transition, line 947, on the AC-fault transition of handle_status_packet:
\* the poll thread requests the shutdown
PollScheduleDeadline ==
    /\ ~is_on_battery
    /\ ~settings.monitor_only_mode
    /\ settings.shutdown_pc.on_ac_fault.enabled
    /\ schedule_deadline_step("poll", latch_on_battery(Pack, TRUE),
                              settings.shutdown_pc.on_ac_fault.delay_minutes, "ac-fault")

PollScheduleReason ==
    /\ race.poll.pc = "schedule"
    /\ schedule_reason_step("poll", Pack)

\* process_pending_shutdown, lines 877-890: the due check, under the deadline's lock
PollDueCheck ==
    /\ race.poll.pc = "idle"
    /\ ~settings.monitor_only_mode
    /\ IsSome(scheduled_shutdown_at_ms)
    /\ now >= Get(scheduled_shutdown_at_ms)
    /\ thr' = Some([race EXCEPT !.poll = [ThreadIdle EXCEPT !.pc = "due",
                                                            !.seen = scheduled_shutdown_at_ms]])
    /\ out' = << >>
    /\ UNCHANGED << settings, is_connected, has_emitted_disconnected, is_on_battery,
                    was_battery_low, was_battery_critical, battery_start_ms, last_status,
                    scheduled_shutdown_at_ms, scheduled_shutdown_reason, last_error,
                    sound_generation, tasks, api, connected_device, pollPc, now,
                    req_min, cancel_done, ac_run, stream_pos, history, battery_run >>

\* process_pending_shutdown, lines 892-893: the reason, under the reason's lock
PollReadReason ==
    /\ race.poll.pc = "due"
    /\ thr' = Some([race EXCEPT !.poll.pc = "reason",
                                !.poll.reason = IF IsSome(scheduled_shutdown_reason)
                                                THEN Get(scheduled_shutdown_reason)
                                                ELSE "shutdown-scheduled"])
    /\ out' = << >>
    /\ UNCHANGED << settings, is_connected, has_emitted_disconnected, is_on_battery,
                    was_battery_low, was_battery_critical, battery_start_ms, last_status,
                    scheduled_shutdown_at_ms, scheduled_shutdown_reason, last_error,
                    sound_generation, tasks, api, connected_device, pollPc, now,
                    req_min, cancel_done, ac_run, stream_pos, history, battery_run >>

\* cancel_scheduled_shutdown, line 808, by thread t at position from: take() the deadline
cancel_take_step(t, from, s) ==
    /\ race[t].pc = from
    /\ Commit(cancel_take(s))
    /\ thr' = Some([race EXCEPT ![t].pc = "taken",
                                ![t].had = IsSome(s.scheduled_shutdown_at_ms),
                                ![t].seen = IF t = "cmd" THEN s.scheduled_shutdown_at_ms ELSE @])
    /\ UNCHANGED << pollPc, now, stream_pos, history, battery_run >>

\* process_pending_shutdown, line 895: cancel_scheduled_shutdown(app, false); what it
\* returns is not looked at
PollCancelTake ==
    /\ race.poll.pc = "reason"
    /\ cancel_take_step("poll", "reason", Pack)

PollCancelFinish ==
    /\ race.poll.pc = "taken"
    /\ Commit(cancel_finish(Pack, race.poll.had, FALSE))
    /\ thr' = Some([race EXCEPT !.poll.pc = "fire"])
    /\ UNCHANGED << pollPc, now, stream_pos, history, battery_run >>

\* process_pending_shutdown, lines 897-908: the notification, the alert, the event, the
\* system action
shutdown_execution(s, st, reason, spawn_ok) ==
    execute_shutdown_command(
        Note(log_event(emit_if_possible(Note(s, "notify", "Apagado de seguridad", 0),
                                        "urgent-alert", 0),
                       "Shutdown execution"),
             "fire", reason, 0),
        st, reason, spawn_ok)

PollExecute ==
    /\ race.poll.pc = "fire"
    /\ \E spawn_ok \in BOOLEAN :
           Commit(shutdown_execution(Pack, settings, race.poll.reason, spawn_ok))
    /\ thr' = Some([race EXCEPT !.poll = ThreadIdle])
    /\ UNCHANGED << pollPc, now, stream_pos, history, battery_run >>

\* trigger_shutdown, lines 1512-1519
TriggerDeadline ==
    /\ ~settings.monitor_only_mode
    /\ \E minutes \in MinuteInputs :
           schedule_deadline_step("cmd", command(Pack, "trigger_shutdown"), minutes,
                                  "manual-trigger")

TriggerReason ==
    /\ race.cmd.pc = "schedule"
    /\ schedule_reason_step("cmd", Pack)

\* cancel_shutdown, lines 1506-1509
CancelTake ==
    /\ race.cmd.pc = "idle"
    /\ cancel_take_step("cmd", "idle", command(Pack, "cancel_shutdown"))

CancelFinish ==
    /\ race.cmd.pc = "taken"
    /\ Commit(Note(cancel_finish(Pack, race.cmd.had, TRUE), "return",
                   IF race.cmd.had THEN "true" ELSE "false", 0))
    /\ thr' = Some([race EXCEPT !.cmd = ThreadIdle,
                                !.returned_true = IF race.cmd.had THEN race.cmd.seen ELSE @])
    /\ UNCHANGED << pollPc, now, stream_pos, history, battery_run >>

NextRace ==
    \/ PollScheduleDeadline
    \/ PollScheduleReason
    \/ PollDueCheck
    \/ PollReadReason
    \/ PollCancelTake
    \/ PollCancelFinish
    \/ PollExecute
    \/ TriggerDeadline
    \/ TriggerReason
    \/ CancelTake
    \/ CancelFinish
    \/ Tick

SpecRace == InitRace /\ [][NextRace]_vars

(***************************************************************************)
(* should_force_popup under interleaving.  last_forced_popup_ms is an      *)
(* atomic that is loaded at line 760 and stored at line 773; a step of     *)
(* SpecPopup is one of the two accesses.  The callers are the poll thread  *)
(* (an alert's popup, line 935; the shutdown execution, line 900) and the  *)
(* command thread (test_notification, test_urgent_alert).  thr holds the   *)
(* atomic, the clock in milliseconds, each thread's position and locals,   *)
(* and one observation: forced, the time of the latest forced popup.       *)
(***************************************************************************)
FORCED_POPUP_INTERVAL_MS == 6000

\* the clock advances by half the interval
PopupTickMs == FORCED_POPUP_INTERVAL_MS \div 2

PopupIdle == [ pc |-> "idle", now |-> 0 ]

\* AppState::new, line 465: last_forced_popup_ms is 0; the clock is the time since the
\* epoch, far more than the interval
PopupFresh ==
    [ last_forced_popup_ms |-> 0, clock |-> 2 * FORCED_POPUP_INTERVAL_MS, ticks |-> 0,
      poll |-> PopupIdle, cmd |-> PopupIdle, forced |-> None ]

popup == IF IsSome(thr) THEN Get(thr) ELSE PopupFresh

InitPopup ==
    /\ settings \in { normalize(x) : x \in { QuietSettings } }
    /\ Fresh
    /\ NoHistory

\* lines 759-763: now, the load, the interval test
too_soon(now_ms, last) == Max(now_ms - last, 0) < FORCED_POPUP_INTERVAL_MS

popup_load(t, notes) ==
    /\ popup[t].pc = "idle"
    /\ thr' = Some([popup EXCEPT ![t] = IF too_soon(popup.clock, popup.last_forced_popup_ms)
                                        THEN PopupIdle
                                        ELSE [pc |-> "window", now |-> popup.clock]])
    /\ out' = IF too_soon(popup.clock, popup.last_forced_popup_ms)
              THEN Append(notes, [k |-> "should_force_popup", a |-> "false", b |-> popup.clock])
              ELSE notes

\* lines 765-774: the window test, the store; the caller forces the popup on true
popup_decide(t, visible_and_focused) ==
    /\ popup[t].pc = "window"
    /\ thr' = Some([popup EXCEPT
                      ![t] = PopupIdle,
                      !.last_forced_popup_ms = IF visible_and_focused THEN @ ELSE popup[t].now,
                      !.forced = IF visible_and_focused THEN @ ELSE Some(popup[t].now)])
    /\ out' = IF visible_and_focused
              THEN << [k |-> "should_force_popup", a |-> "false", b |-> popup[t].now] >>
              ELSE << [k |-> "should_force_popup", a |-> "true", b |-> popup[t].now],
                      [k |-> "force_windows_popup", a |-> t, b |-> popup[t].now] >>

PopupRest ==
    UNCHANGED << settings, is_connected, has_emitted_disconnected, is_on_battery,
                 was_battery_low, was_battery_critical, battery_start_ms, last_status,
                 scheduled_shutdown_at_ms, scheduled_shutdown_reason, last_error,
                 sound_generation, tasks, api, connected_device, pollPc, now,
                 req_min, cancel_done, ac_run, stream_pos, history, battery_run >>

\* handle_alert_transition, lines 933-937
PollPopupLoad ==
    /\ popup_load("poll", << >>)
    /\ PopupRest

PollPopupDecide ==
    /\ \E visible_and_focused \in BOOLEAN : popup_decide("poll", visible_and_focused)
    /\ PopupRest

\* test_notification, lines 1379-1394
TestNotificationLoad ==
    /\ popup_load("cmd", << [k |-> "command", a |-> "test_notification", b |-> 0] >>)
    /\ PopupRest

TestNotificationDecide ==
    /\ \E visible_and_focused \in BOOLEAN : popup_decide("cmd", visible_and_focused)
    /\ PopupRest

\* time passes
PopupClock ==
    /\ popup.ticks < MaxPopupTicks
    /\ thr' = Some([popup EXCEPT !.clock = @ + PopupTickMs, !.ticks = @ + 1])
    /\ out' = << >>
    /\ PopupRest

NextPopup ==
    \/ PollPopupLoad
    \/ PollPopupDecide
    \/ TestNotificationLoad
    \/ TestNotificationDecide
    \/ PopupClock

SpecPopup == InitPopup /\ [][NextPopup]_vars

(***************************************************************************)
(* The state locks.  Each field of AppState is behind its own Mutex; a     *)
(* thread's code is a straight program of lock acquisitions, releases and  *)
(* operations, and a step of SpecLocks executes one instruction.  The      *)
(* threads are the poll thread and the command thread (the commands are    *)
(* synchronous, one at a time); playback tasks take no state lock.  thr    *)
(* holds each thread's program, position and clone, the owner of each      *)
(* lock, and the content of the events file.  The settings are not         *)
(* monitor-only here, so log_event does not return at line 486.            *)
(***************************************************************************)
Threads == { "poll", "cmd" }

StateLocks == { "settings", "events", "was_battery_low" }

acquire(lock_name) == [kind |-> "acquire", x |-> lock_name]
release(lock_name) == [kind |-> "release", x |-> lock_name]
operation(name) == [kind |-> "operation", x |-> name]

\* AppState::save_events, lines 474-477: the clone under the lock, the write after it
save_events_program ==
    << acquire("events"), operation("clone_events"), release("events"),
       operation("write_events") >>

\* AppState::log_event, line 503: drop(events) before save_events
BadLogEventDrop == << >>
log_event_drop == << release("events") >>

\* AppState::log_event, lines 484-505
log_event_program ==
    << acquire("settings"), operation("monitor_only_mode"), release("settings"),
       acquire("events"), operation("insert") >>
    \o log_event_drop \o save_events_program

\* handle_status_packet, lines 1097-1108, battery low triggered: the latch's guard lives
\* to the end of the block
battery_low_program ==
    << acquire("was_battery_low") >> \o log_event_program
    \o << operation("set_latch"), release("was_battery_low") >>

\* handle_status_packet, lines 1097-1108, the battery not low
battery_ok_program ==
    << acquire("was_battery_low"), operation("clear_latch"), release("was_battery_low") >>

\* delete_events, lines 1605-1618, with no ids
delete_events_program ==
    << acquire("events"), operation("clear"), release("events") >> \o save_events_program

\* AppState::save_settings, lines 469-472
save_settings_program ==
    << acquire("settings"), operation("clone_settings"), release("settings"),
       operation("write_settings") >>

\* set_sound_config, lines 1791-1828
set_sound_config_program ==
    << acquire("settings"), operation("patch"), release("settings") >>
    \o save_settings_program

\* a disk write: write_json_pretty, lines 568-572
SlowOperations == { "write_events", "write_settings" }

ThreadDone == [ prog |-> << >>, pc |-> 1, copy |-> << >> ]

\* AppState::new: no lock is held, the events list is what the file holds
LocksFresh ==
    [ poll |-> ThreadDone, cmd |-> ThreadDone,
      owner |-> [l \in StateLocks |-> "none"],
      events_file |-> << >> ]

locks == IF IsSome(thr) THEN Get(thr) ELSE LocksFresh

InitLocks ==
    /\ settings \in { normalize(x) : x \in { QuietSettings } }
    /\ Fresh
    /\ NoHistory

completed(t) == locks[t].pc > Len(locks[t].prog)

instruction(t) ==
    IF completed(t) THEN operation("none") ELSE locks[t].prog[locks[t].pc]

held(t) == { l \in StateLocks : locks.owner[l] = t }

LocksRest ==
    UNCHANGED << settings, is_connected, has_emitted_disconnected, is_on_battery,
                 was_battery_critical, battery_start_ms, last_status,
                 scheduled_shutdown_at_ms, scheduled_shutdown_reason, last_error,
                 sound_generation, tasks, api, connected_device, pollPc, now,
                 req_min, cancel_done, ac_run, stream_pos, data_history, battery_run >>

\* thread t enters a function
start(t, program, name) ==
    /\ completed(t)
    /\ thr' = Some([locks EXCEPT ![t] = [prog |-> program, pc |-> 1, copy |-> << >>]])
    /\ out' = << [k |-> "start", a |-> name, b |-> 0] >>
    /\ UNCHANGED << events, was_battery_low >>
    /\ LocksRest

\* the poll thread handles a snapshot with the battery low, the latch not set
PollBatteryLow ==
    /\ ~was_battery_low
    /\ Len(events) < MaxWrites
    /\ start("poll", battery_low_program, "battery_low")

\* the poll thread handles a snapshot with the battery not low
PollBatteryOk ==
    /\ was_battery_low
    /\ start("poll", battery_ok_program, "battery_ok")

DeleteEvents ==
    /\ events # << >>
    /\ start("cmd", delete_events_program, "delete_events")

SetSoundConfigLocks ==
    /\ completed("cmd")
    /\ start("cmd", set_sound_config_program, "set_sound_config")

\* lock(): the thread blocks until the Mutex is free
Acquire(t) ==
    /\ instruction(t).kind = "acquire"
    /\ locks.owner[instruction(t).x] = "none"
    /\ thr' = Some([locks EXCEPT !.owner[instruction(t).x] = t, ![t].pc = @ + 1])
    /\ out' = << >>
    /\ UNCHANGED << events, was_battery_low >>
    /\ LocksRest

\* the guard is dropped
Release(t) ==
    /\ instruction(t).kind = "release"
    /\ thr' = Some([locks EXCEPT !.owner[instruction(t).x] = "none", ![t].pc = @ + 1])
    /\ out' = << >>
    /\ UNCHANGED << events, was_battery_low >>
    /\ LocksRest

\* what an operation does to the events list, the latch, the thread's clone, the file
events_by(name, list) ==
    CASE name = "insert" -> events_insert(list, "Battery Low")
      [] name = "clear" -> << >>
      [] OTHER -> list

latch_by(name, latch) ==
    CASE name = "set_latch" -> TRUE
      [] name = "clear_latch" -> FALSE
      [] OTHER -> latch

Operate(t) ==
    /\ instruction(t).kind = "operation"
    /\ ~completed(t)
    /\ events' = events_by(instruction(t).x, events)
    /\ was_battery_low' = latch_by(instruction(t).x, was_battery_low)
    /\ thr' = Some([locks EXCEPT
                      ![t].pc = @ + 1,
                      ![t].copy = IF instruction(t).x = "clone_events" THEN events ELSE @,
                      !.events_file = IF instruction(t).x = "write_events"
                                      THEN locks[t].copy ELSE @])
    /\ out' = << [k |-> IF instruction(t).x \in SlowOperations
                        THEN "write_json_pretty" ELSE "operation",
                  a |-> instruction(t).x, b |-> Cardinality(held(t))] >>
    /\ LocksRest

\* a thread inside a function goes on
Step(t) ==
    /\ ~completed(t)
    /\ Acquire(t) \/ Release(t) \/ Operate(t)

NextLocks ==
    \/ PollBatteryLow
    \/ PollBatteryOk
    \/ DeleteEvents
    \/ SetSoundConfigLocks
    \/ \E t \in Threads : Acquire(t)
    \/ \E t \in Threads : Release(t)
    \/ \E t \in Threads : Operate(t)

\* a thread that can go on again and again does go on: a blocked thread is woken when
\* the Mutex is unlocked
SpecLocks ==
    InitLocks /\ [][NextLocks]_vars /\ SF_vars(Step("poll")) /\ SF_vars(Step("cmd"))

(***************************************************************************)
(* DeviceInfo.  device_info is written by the scan of poll_ups (lines      *)
(* 999-1014) and by a version packet (lines 1049-1053).  Under SpecDevice  *)
(* thr holds it with three observations: whether the last poll iteration's *)
(* scan found the device, the firmware of the version packet it read, and  *)
(* the last connection event emitted so far.                               *)
(***************************************************************************)
\* poll_ups, lines 999-1013: the strings of the HID descriptor or their defaults, the
\* firmware of the DeviceInfo there was
BadScanInfo(existing, dev) ==
    [ manufacturer |-> IF IsSome(dev.manufacturer) THEN Get(dev.manufacturer) ELSE "RICHCOMM",
      product |-> IF IsSome(dev.product) THEN Get(dev.product) ELSE "UPS USB Mon",
      vendor_id |-> "0925",
      product_id |-> "1234",
      firmware |-> None ]
scan_info(existing, dev) ==
    [ manufacturer |-> IF IsSome(dev.manufacturer) THEN Get(dev.manufacturer) ELSE "RICHCOMM",
      product |-> IF IsSome(dev.product) THEN Get(dev.product) ELSE "UPS USB Mon",
      vendor_id |-> "0925",
      product_id |-> "1234",
      firmware |-> IF IsSome(existing) THEN Get(existing).firmware ELSE None ]

\* read_one_packet, lines 1049-1053: a version packet sets the firmware of the
\* DeviceInfo, if there is one
version_read(info, env, dev) ==
    IF env.read = "version" /\ IsSome(info)
    THEN Some([Get(info) EXCEPT !.firmware = Some(dev.firmware)])
    ELSE info

\* poll_ups, lines 981-1035
device_info_poll_ups(info, s, env, dev) ==
    IF s.connected_device THEN version_read(info, env, dev)
    ELSE IF ~env.found THEN info
    ELSE IF env.open_ok THEN version_read(Some(scan_info(info, dev)), env, dev)
    ELSE Some(scan_info(info, dev))

\* start_ups_monitor, lines 1275-1300: poll_ups is not reached when HidApi::new or
\* refresh_devices fails
poll_ups_reached(s, env) ==
    ~(~s.api /\ ~env.hid_init_ok) /\ ~(env.refresh_due /\ ~env.refresh_ok)

device_info_iteration(info, s, env, dev) ==
    IF poll_ups_reached(s, env) THEN device_info_poll_ups(info, s, env, dev) ELSE info

\* the ups-connected and ups-disconnected events in a record of what an operation did
ConnectionEvents(o) ==
    SelectSeq(o, LAMBDA e : e.k = "emit" /\ e.a \in { "ups-connected", "ups-disconnected" })

\* the last of them, or the one before
last_connection_event(before, o) ==
    IF ConnectionEvents(o) = << >> THEN before
    ELSE ConnectionEvents(o)[Len(ConnectionEvents(o))].a

DeviceFresh ==
    [ device_info |-> None, scanned |-> FALSE, version |-> None, last_event |-> "none" ]

device == IF IsSome(thr) THEN Get(thr) ELSE DeviceFresh

\* the device answers with a status or a version packet or nothing, the read fails, the
\* device is absent or cannot be opened, the HID layer fails
EnvInfo ==
    { [EnvQuiet EXCEPT !.read = r] : r \in { "empty", "version", "err" } }
    \cup { [EnvQuiet EXCEPT !.read = "status",
                            !.status = [utility_fail |-> TRUE, battery_low |-> low,
                                        battery_percent |-> p]] :
                 low \in BOOLEAN, p \in { 5, 80 } }
    \cup {
           [EnvQuiet EXCEPT !.found = FALSE],
           [EnvQuiet EXCEPT !.open_ok = FALSE],
           [EnvQuiet EXCEPT !.hid_init_ok = FALSE],
           [EnvQuiet EXCEPT !.refresh_due = TRUE, !.refresh_ok = FALSE] }

\* what the HID descriptor and a version packet hold
DescriptorInputs ==
    { [manufacturer |-> m, product |-> None, firmware |-> f] :
          m \in { None, Some("ACME") }, f \in { "V1.0", "V2.0" } }

InitDevice ==
    /\ settings \in { normalize(x) : x \in { QuietSettings } }
    /\ Fresh
    /\ NoHistory

PollDevice ==
    /\ \E env \in EnvInfo, dev \in DescriptorInputs :
           /\ Commit(poll_iteration(Pack, settings, env))
           /\ thr' = Some([ device_info |-> device_info_iteration(device.device_info, Pack, env, dev),
                            scanned |-> poll_ups_reached(Pack, env) /\ ~connected_device
                                        /\ env.found,
                            version |-> IF poll_ups_reached(Pack, env) /\ env.read = "version"
                                           /\ (connected_device \/ (env.found /\ env.open_ok))
                                        THEN Some(dev.firmware) ELSE None,
                            last_event |-> last_connection_event(device.last_event, out') ])
    /\ UNCHANGED << pollPc, now, stream_pos, history, battery_run >>

\* get_ups_info, lines 1374-1377
GetUpsInfo ==
    /\ out' = << [k |-> "command", a |-> "get_ups_info", b |-> 0],
                 [k |-> "return", a |-> IF IsSome(device.device_info) THEN "some" ELSE "none",
                  b |-> 0] >>
    /\ UNCHANGED << settings, is_connected, has_emitted_disconnected, is_on_battery,
                    was_battery_low, was_battery_critical, battery_start_ms, last_status,
                    scheduled_shutdown_at_ms, scheduled_shutdown_reason, last_error,
                    sound_generation, tasks, api, connected_device, pollPc, now,
                    req_min, cancel_done, ac_run, stream_pos, thr, history, battery_run >>

\* get_ups_status, lines 1369-1372
get_ups_status(s) ==
    Note(command(s, "get_ups_status"), "return",
         IF IsSome(s.last_status) THEN "some" ELSE "none", 0)

GetUpsStatus ==
    /\ Commit(get_ups_status(Pack))
    /\ UNCHANGED << pollPc, now, stream_pos, thr, history, battery_run >>

NextDevice ==
    \/ PollDevice
    \/ GetUpsInfo
    \/ GetUpsStatus
    \/ Tick

SpecDevice == InitDevice /\ [][NextDevice]_vars

(***************************************************************************)
(* Monitor-only mode and the commands, under SpecCmd.                      *)
(***************************************************************************)
\* C11: monitor-only mode forces sound off.  While the stored settings have monitor-only
\* on, no operation starts a sound playback task.
C11_NoSoundInMonitorOnly ==
    [][settings.monitor_only_mode => tasks' = tasks]_vars

(***************************************************************************)
(* The delay of a schedule request, under Spec.                            *)
(***************************************************************************)
\* the shutdown-scheduled events in a record of what an operation did
ScheduledEvents(o) == Entries(o, "emit", "shutdown-scheduled")

\* C14: delay clamp.  Every schedule request, from an alert or from trigger_shutdown,
\* whatever minutes it is given (0 and more than 120 included), computes a deadline
\* between now + 1 and now + 120 minutes, and the shutdown-scheduled event it emits
\* carries between 1 and 120 minutes: those from now to the deadline.
C14_DelayClamped ==
    [][ /\ \A i \in Requests(out') :
               out'[i].b \in (now + MinDelayMinutes)..(now + MaxDelayMinutes)
        /\ Requests(out') # {} =>
               \A j \in ScheduledEvents(out') :
                   /\ out'[j].b \in MinDelayMinutes..MaxDelayMinutes
                   /\ \E i \in Requests(out') : i < j /\ out'[i].b = now + out'[j].b ]_vars

\* trigger_shutdown was called with 200 minutes: the deadline is 120 minutes away and
\* the event says 120
C14_Witness ==
    /\ HasOut(out, "return", "true")
    /\ scheduled_shutdown_at_ms = Some(now + MaxDelayMinutes)
    /\ \E j \in ScheduledEvents(out) : out[j].b = MaxDelayMinutes

(***************************************************************************)
(* The execution of a due shutdown, under SpecCmd.                         *)
(***************************************************************************)
\* C15: a shutdown fires at most once and is not retried.  A step executes at most one
\* system action; it does so for a deadline that was pending and due; the deadline and
\* the reason are cleared before the action is invoked and stay cleared after the step,
\* whether the command was spawned or not, so that the same deadline cannot lead to a
\* second execution; a failure to spawn is only reported, as the last error.
C15_FiresOnce ==
    [][ SystemActions(out') # {} =>
          /\ Cardinality(SystemActions(out')) = 1
          /\ IsSome(scheduled_shutdown_at_ms) /\ now >= Get(scheduled_shutdown_at_ms)
          /\ \A i \in SystemActions(out') : out'[i].b = 0
          /\ scheduled_shutdown_at_ms' = None
          /\ scheduled_shutdown_reason' = None
          /\ req_min' = None
          /\ \A i \in 1..Len(out') : out'[i].k = "spawn_failed" =>
                 /\ last_error' = Some("shutdown-command-failed")
                 /\ \/ last_error = last_error'
                    \/ \E j \in Entries(out', "emit", "ups-error") : j > i ]_vars

\* the system command of a due shutdown has just failed to spawn: ups-error was emitted
\* and no deadline and no reason are left
C15_Witness ==
    /\ \E i \in 1..Len(out) : out[i].k = "spawn_failed"
    /\ HasOut(out, "emit", "ups-error")
    /\ scheduled_shutdown_at_ms = None
    /\ scheduled_shutdown_reason = None

(***************************************************************************)
(* The reported errors, under SpecPoll.                                    *)
(***************************************************************************)
\* the ups-error events in a record of what an operation did, with their messages
ErrorEvents(o) == { i \in 1..Len(o) : o[i].k = "ups-error" }
\* the operations of the HID layer and the spawns of the system command that succeeded
Successes(o) ==
    { i \in 1..Len(o) :
          \/ o[i].k = "hid_ok"
          \/ o[i].k = "system_action" /\ ~(i < Len(o) /\ o[i + 1].k = "spawn_failed") }

\* C16: error dedup.  The message of the last ups-error, not cleared since, is the stored
\* last error.  An operation that emits ups-error with that same message has, before
\* it, emitted an ups-error with another message or seen an operation succeed (which
\* cleared the last error): two ups-error events with the same message are separated by
\* one of the two.  (The steps are the iterations of the poll thread.)
C16_NoRepeatedError ==
    [][ \A j \in ErrorEvents(out') :
            (pollPc = "run" /\ pollPc' = "sleep" /\ last_error = Some(out'[j].a)) =>
                \/ \E i \in ErrorEvents(out') : i < j /\ out'[i].a # out'[j].a
                \/ \E i \in Successes(out') : i < j ]_vars

(***************************************************************************)
(* trigger_shutdown and simulate_shutdown_flow, under SpecCmd.             *)
(***************************************************************************)
\* a step that ran the command
Ran(o, name) == HasOut(o, "command", name)

\* C18: simulate mode reuses the scheduler.  A call of simulate_shutdown_flow that is not
\* rejected schedules through schedule_shutdown_after_minutes (a schedule request is
\* made, with the clamp and earliest-wins, before its shutdown-scheduled event) and
\* cancels through cancel_scheduled_shutdown, so that no deadline is pending when it
\* returns.
C18_SimulateUsesScheduler ==
    [][ (Ran(out', "simulate_shutdown_flow") /\ HasOut(out', "return", "ok")) =>
          /\ \A j \in ScheduledEvents(out') :
                 /\ out'[j].b \in MinDelayMinutes..MaxDelayMinutes
                 /\ \E i \in Requests(out') : i < j
          /\ scheduled_shutdown_at_ms' = None ]_vars

\* C19: rejection in monitor-only mode.  While the stored settings have monitor-only on,
\* trigger_shutdown returns false and simulate_shutdown_flow returns an error; neither
\* changes the pending deadline or its reason, makes a schedule request, or emits
\* shutdown-scheduled or shutdown-cancelled.
C19_RejectedInMonitorOnly ==
    [][ settings.monitor_only_mode =>
          /\ Ran(out', "trigger_shutdown") => out'[Len(out')] = [k |-> "return", a |-> "false", b |-> 0]
          /\ Ran(out', "simulate_shutdown_flow") => out'[Len(out')] = [k |-> "return", a |-> "error", b |-> 0]
          /\ (Ran(out', "trigger_shutdown") \/ Ran(out', "simulate_shutdown_flow")) =>
                 /\ Len(out') = 2
                 /\ scheduled_shutdown_at_ms' = scheduled_shutdown_at_ms
                 /\ scheduled_shutdown_reason' = scheduled_shutdown_reason ]_vars

\* trigger_shutdown was called in monitor-only mode and returned false
C19_Witness ==
    /\ settings.monitor_only_mode
    /\ Ran(out, "trigger_shutdown")
    /\ HasOut(out, "return", "false")

(***************************************************************************)
(* The battery percentage of the decoded snapshots, under SpecBattery.     *)
(***************************************************************************)
\* C20: calculate_battery_percent.  A voltage of 21.0 V or less gives 0, one of 26.8 V or
\* more gives 100, 23.9 V gives 50, and every result is between 0 and 100 ...
C20_PercentOfVoltage ==
    IsSome(last_status) =>
        /\ Get(last_status).battery_percent \in 0..100
        /\ Get(last_status).battery_voltage <= 210 => Get(last_status).battery_percent = 0
        /\ Get(last_status).battery_voltage >= 268 => Get(last_status).battery_percent = 100
        /\ Get(last_status).battery_voltage = 239 => Get(last_status).battery_percent = 50

\* ... and the result is monotonically non-decreasing in the voltage: of two snapshots
\* decoded one after the other, the one with the higher voltage has the higher or the
\* same percentage.
C20_Monotonic ==
    (IsSome(last_status) /\ IsSome(last_status')) =>
        (Get(last_status).battery_voltage <= Get(last_status').battery_voltage =>
             Get(last_status).battery_percent <= Get(last_status').battery_percent)

C20_BatteryPercent == []C20_PercentOfVoltage /\ [][C20_Monotonic]_vars

\* a frame with 23.9 V was decoded to 50%
C20_Witness ==
    /\ IsSome(last_status)
    /\ Get(last_status).battery_voltage = 239
    /\ Get(last_status).battery_percent = 50
    /\ SnapshotHandled(out)

(***************************************************************************)
(* The history lists, under SpecHistory.                                   *)
(***************************************************************************)
\* the calls of log_event an operation made
LogEventCalls(o) == { i \in 1..Len(o) : o[i].k = "log_event" }
\* the calls of log_data_point_if_needed it made, the history interval having elapsed
DataPointCallsDue(o) == { i \in 1..Len(o) : o[i].k = "log_data_point_if_needed" /\ o[i].b = 1 }
\* the events it wrote
EventsWritten(o) == { i \in 1..Len(o) : o[i].k = "event_written" }

\* C12: history and event writes are suppressed in monitor-only mode.  While the stored
\* settings have monitor-only on, no operation, whatever calls of log_event and
\* log_data_point_if_needed it makes, changes the events list or the telemetry history.
C12_NoHistoryInMonitorOnly ==
    [][settings.monitor_only_mode => events' = events /\ data_history' = data_history]_vars

\* monitor-only is on and the poll loop has just handled a snapshot on which it called
\* log_event and, the history interval having elapsed, log_data_point_if_needed; the
\* events list is the full list that was loaded and the telemetry history is empty
C12_Witness ==
    /\ settings.monitor_only_mode
    /\ LogEventCalls(out) # {}
    /\ DataPointCallsDue(out) # {}
    /\ events = EventsOfLen(MAX_EVENTS)
    /\ data_history = << >>

\* C17: the events list is bounded and ordered.  From a list of at most MAX_EVENTS events,
\* the list has at most MAX_EVENTS entries, newest first ...
C17_BoundedNewestFirst ==
    /\ Len(events) <= MAX_EVENTS
    /\ \A i \in 1..(Len(events) - 1) : events[i].seq > events[i + 1].seq

\* ... and an operation that writes k events puts them at the front, the last written
\* first, and keeps the newest of the others as far as MAX_EVENTS allows: written into a
\* full list, the k oldest are dropped.
C17_OldestDropped ==
    LET k == Cardinality(EventsWritten(out'))
    IN /\ Len(events') = Min(Len(events) + k, MAX_EVENTS)
       /\ SubSeq(events', k + 1, Len(events')) = SubSeq(events, 1, Len(events') - k)
       /\ \A i \in 1..k :
              events'[i].seq = (IF events = << >> THEN 0 ELSE events[1].seq) + (k + 1 - i)

C17_EventsBounded == []C17_BoundedNewestFirst /\ [][C17_OldestDropped]_vars

\* an event was written into the full list of MAX_EVENTS events that was loaded: the list
\* holds MAX_EVENTS events, the new one first, and the oldest of the loaded ones is gone
C17_Witness ==
    /\ Len(events) = MAX_EVENTS
    /\ events[1].seq = MAX_EVENTS + 1
    /\ events[MAX_EVENTS].seq = 2
    /\ EventsWritten(out) # {}

(***************************************************************************)
(* The stored settings, under SpecSettings.                                *)
(***************************************************************************)
\* C13: threshold ordering.  The stored settings always have the critical threshold at or
\* below the low threshold, whatever save_settings, set_sound_config,
\* update_history_interval and set_custom_sounds_path are called with.
C13_CriticalAtMostLow ==
    settings.critical_battery_threshold <= settings.low_battery_threshold

\* settings sent with a low threshold below the range and a critical one above it were
\* saved (5 and 5 are stored), and the other three commands have changed the settings
C13_Witness ==
    /\ settings.low_battery_threshold = 5
    /\ settings.critical_battery_threshold = 5
    /\ settings.history_interval = 3600
    /\ settings.alerts.battery_critical.sound_repeats = 30
    /\ settings.custom_sounds_path = Some("sounds")
    /\ HasOut(out, "return", "set_custom_sounds_path")

(***************************************************************************)
(* The decoder, under SpecDecode.                                          *)
(***************************************************************************)
\* a step that is a poll iteration whose read returned bytes
ReadDone(o) == HasOut(o, "hid_ok", "read")

\* C21: the decoder is pure.  Two calls of decode_packet with the same bytes, one after
\* the other, made at different times and in different states of the application, return
\* the same result in every field of the decoded packet (or both return none).
C21_DecodeIsPure ==
    [][ (IsSome(thr) /\ ReadDone(out') /\ Get(thr').raw_data = Get(thr).raw_data)
        => Get(thr').decoded = Get(thr).decoded ]_vars

\* the cleaned text of a buffer: decode_packet's input to parse_ups_string
Cleaned(raw_data) == trim(ascii_of(data_bytes(raw_data)))

\* the cleaned text starts with '(' and has fewer than 8 fields after it
Malformed(raw_data) ==
    /\ Cleaned(raw_data) # << >>
    /\ Cleaned(raw_data)[1] = LeftParen
    /\ Len(split_whitespace(Tail(Cleaned(raw_data)))) < 8

\* what a poll tick that read a malformed frame leaves alone, schedule and connection
\* latches aside
MalformedIgnored ==
    /\ Get(thr').decoded = None
    /\ is_on_battery' = is_on_battery
    /\ was_battery_low' = was_battery_low
    /\ was_battery_critical' = was_battery_critical
    /\ battery_start_ms' = battery_start_ms
    /\ last_status' = last_status
    /\ ~HasOut(out', "emit", "ups-data")
    /\ DispatchCount(out') = 0
    /\ Requests(out') = {}

\* C22 as stated: a malformed frame never produces a snapshot.  For every buffer whose
\* cleaned text starts with '(' and has fewer than 8 fields after it, decode_packet
\* returns no packet of any kind, and the poll tick that read it changes no latch, no
\* last snapshot and no schedule and emits no ups-data.
C22_Original ==
    [][ (ReadDone(out') /\ Malformed(Get(thr').raw_data))
        => /\ MalformedIgnored
           /\ is_connected' = is_connected
           /\ has_emitted_disconnected' = has_emitted_disconnected
           /\ scheduled_shutdown_at_ms' = scheduled_shutdown_at_ms
           /\ scheduled_shutdown_reason' = scheduled_shutdown_reason ]_vars

\* C22 amended: ... decode_packet returns no packet of any kind, and the poll tick that
\* read it changes none of the on-battery, battery-low and battery-critical latches, not
\* the battery timer and not the last snapshot, dispatches nothing, requests no shutdown
\* and emits no ups-data.  The connection latches change only as the tick's open of the
\* device sets them (connected, no disconnect emitted), and the schedule only as the
\* tick's own deadline check clears it, executing a deadline that was due.
C22_MalformedIgnored ==
    [][ (ReadDone(out') /\ Malformed(Get(thr').raw_data))
        => /\ MalformedIgnored
           /\ is_connected' /\ ~has_emitted_disconnected'
           /\ is_connected => has_emitted_disconnected' = has_emitted_disconnected
           /\ \/ /\ scheduled_shutdown_at_ms' = scheduled_shutdown_at_ms
                 /\ scheduled_shutdown_reason' = scheduled_shutdown_reason
                 /\ SystemActions(out') = {}
              \/ /\ IsSome(scheduled_shutdown_at_ms)
                 /\ now >= Get(scheduled_shutdown_at_ms)
                 /\ SystemActions(out') # {}
                 /\ scheduled_shutdown_at_ms' = None
                 /\ scheduled_shutdown_reason' = None ]_vars

\* on battery with a deadline pending, the poll loop has just read a status line of 7
\* fields: nothing was decoded, and the snapshot, the latches and the deadline are those
\* of the well-formed frame read before
C22_Witness ==
    /\ IsSome(thr)
    /\ Get(thr).raw_data = Report(StatusText(Volts20, BitsOnBattery, 7))
    /\ Get(thr).decoded = None
    /\ ReadDone(out)
    /\ is_on_battery /\ was_battery_critical
    /\ IsSome(last_status)
    /\ IsSome(scheduled_shutdown_at_ms)

(***************************************************************************)
(* The battery state machine, under SpecLatch.                             *)
(***************************************************************************)
\* the last snapshot handled had utilityFail = true, and no disconnect came since
OnBattery == ac_run.len >= 1

\* between poll ticks the battery start time is present exactly when the device is on
\* battery, which is when the on-battery latch is set
C23_TimerIffOnBattery ==
    /\ IsSome(battery_start_ms) <=> is_on_battery
    /\ is_on_battery <=> OnBattery
    /\ OnBattery <=> (IsSome(last_status) /\ Get(last_status).utility_fail)

\* get_battery_time returns a value, the time since the battery start, exactly when the
\* device is on battery, and none when it is not
C23_QueryAnswers ==
    Ran(out', "get_battery_time") =>
        out'[Len(out')] = IF OnBattery
                          THEN [k |-> "return", a |-> "some", b |-> now - Get(battery_start_ms)]
                          ELSE [k |-> "return", a |-> "none", b |-> 0]

\* C23: the battery-on-duration query.  At every point between poll ticks,
\* get_battery_time returns a value exactly when the device is on battery (the last
\* processed snapshot had utilityFail = true and the device was not marked disconnected
\* since) and none when on AC: the battery start time is present if and only if the
\* on-battery latch is set.
C23_BatteryTime == []C23_TimerIffOnBattery /\ [][C23_QueryAnswers]_vars

\* a minute after the battery took over, get_battery_time has returned a value
C23_Witness ==
    /\ Ran(out, "get_battery_time")
    /\ out[Len(out)] = [k |-> "return", a |-> "some", b |-> 1]
    /\ is_on_battery
    /\ OnBattery

\* the place of an alert kind in the order of dispatch
DispatchRank(kind) ==
    CASE kind = "AcFault" -> 1
      [] kind = "BatteryLow" -> 2
      [] OTHER -> 3

\* the transitions of a tick are dispatched in the order AcFault, BatteryLow,
\* BatteryCritical, all of them before the deadline check executes anything
C28_Order ==
    \A i, j \in 1..Len(out') :
        out'[i].k = "dispatch" =>
            /\ (out'[j].k = "dispatch" /\ i < j) => DispatchRank(out'[i].a) < DispatchRank(out'[j].a)
            /\ out'[j].k \in {"fire", "system_action"} => i < j

\* the delay of each alert's schedule request: the configured one for AC fault, 5 minutes
\* for battery low, 1 minute for battery critical
C28_Delays ==
    \A i \in Requests(out') :
        /\ out'[i].a = "ac-fault" => out'[i].b = now + AcFaultDelay
        /\ out'[i].a = "battery-low" => out'[i].b = now + 5
        /\ out'[i].a = "battery-critical" => out'[i].b = now + 1

\* a first on-battery snapshot with battery% <= the critical threshold is handled, with
\* shutdown enabled for AC fault and for battery critical
FirstSnapshotCritical ==
    /\ ~is_on_battery
    /\ SnapshotHandled(out')
    /\ CriticalCondition(settings, Get(last_status'))
    /\ ~settings.monitor_only_mode
    /\ settings.shutdown_pc.on_ac_fault.enabled
    /\ settings.shutdown_pc.on_battery_critical.enabled

CriticalPending ==
    /\ scheduled_shutdown_at_ms' = Some(now + 1)
    /\ scheduled_shutdown_reason' = Some("battery-critical")

C29_LowExcludesCritical ==
    [][ HasOut(out', "dispatch", "BatteryLow") =>
          /\ SnapshotHandled(out')
          /\ Get(last_status').utility_fail
          /\ \/ Get(last_status').battery_low
             \/ Get(last_status').battery_percent <= settings.low_battery_threshold
          /\ Get(last_status').battery_percent > settings.critical_battery_threshold
          /\ ~was_battery_low
          /\ was_battery_low'
          /\ CountOut(out', "dispatch", "BatteryLow") = 1
          /\ ~HasOut(out', "dispatch", "BatteryCritical") ]_vars

\* BatteryLow was dispatched for a snapshot at 15% that followed one at 5%: the critical
\* latch was set when it arrived
C29_Witness ==
    /\ HasOut(out, "dispatch", "BatteryLow")
    /\ Get(last_status).battery_percent = 15
    /\ was_battery_low
    /\ ~was_battery_critical
    /\ battery_run.low.len >= 2

\* during a run of snapshots on which the low condition holds at most one BatteryLow was
\* dispatched, during one on which the critical condition holds exactly one
\* BatteryCritical
C30_OnePerRun ==
    /\ battery_run.low.len >= 1 => battery_run.low.trans <= 1
    /\ battery_run.critical.len >= 1 => battery_run.critical.trans = 1

\* each latch is false after a snapshot on which its condition is false
C30_LatchCleared ==
    SnapshotHandled(out') =>
        /\ ~LowCondition(settings, Get(last_status')) => ~was_battery_low'
        /\ ~CriticalCondition(settings, Get(last_status')) => ~was_battery_critical'

\* C30: battery latch idempotence.  Over a run of consecutive snapshots, without
\* disconnect, on which the low condition stays true, at most one BatteryLow transition
\* is emitted; over one on which the critical condition stays true, exactly one
\* BatteryCritical; each latch is false after any snapshot on which its condition is
\* false.
C30_LatchIdempotence == []C30_OnePerRun /\ [][C30_LatchCleared]_vars

\* the critical condition has held for two snapshots or more, the low condition too, and
\* one BatteryCritical and one BatteryLow were dispatched meanwhile
C30_Witness ==
    /\ battery_run.critical = [len |-> MaxRun, trans |-> 1]
    /\ battery_run.low = [len |-> MaxRun, trans |-> 1]
    /\ was_battery_critical
    /\ SnapshotHandled(out)
    /\ DispatchCount(out) = 0

(***************************************************************************)
(* The execution of the system action, under SpecCmd.                      *)
(***************************************************************************)
\* C27: no early firing.  The system action is executed only by
\* process_pending_shutdown (right after it has announced the execution), only when a
\* deadline was pending and now >= that deadline, and only with monitor-only mode off;
\* no schedule request, alert dispatch or command executes it: a step that runs a
\* command, whatever it schedules, executes nothing.
C27_NoEarlyFiring ==
    [][ /\ SystemActions(out') # {} =>
              /\ IsSome(scheduled_shutdown_at_ms)
              /\ now >= Get(scheduled_shutdown_at_ms)
              /\ ~settings.monitor_only_mode
              /\ \A i \in SystemActions(out') : i > 1 /\ out'[i - 1].k = "fire"
              /\ \A j \in 1..Len(out') : out'[j].k # "command"
        /\ (\E j \in 1..Len(out') : out'[j].k \in {"command", "return"}) =>
              SystemActions(out') = {} ]_vars

\* a poll tick on battery has executed the shutdown of a deadline that was due: the
\* minute-1 deadline of the battery-critical alert, at minute 1
C27_Witness ==
    /\ SystemActions(out) # {}
    /\ HasOut(out, "fire", "battery-critical")
    /\ SnapshotHandled(out)
    /\ cancel_done = [done |-> TRUE, deadline |-> Some(1)]
    /\ now = 1
    /\ ~settings.monitor_only_mode

(***************************************************************************)
(* The life of a pending deadline, under Spec.                             *)
(***************************************************************************)
\* C26: a pending shutdown is never pushed out or silently lost.  Once a deadline D is
\* pending, a step leaves a deadline <= D pending, unless it executes the shutdown, is the
\* cancel_shutdown command, handles an AC-fault-cleared transition, or saves settings
\* with monitor-only mode on; no other event, a disconnect of the device in particular,
\* removes the deadline or replaces it by a later one.
C26_DeadlineKept ==
    [][ IsSome(scheduled_shutdown_at_ms) =>
          \/ /\ IsSome(scheduled_shutdown_at_ms')
             /\ Get(scheduled_shutdown_at_ms') <= Get(scheduled_shutdown_at_ms)
          \/ SystemActions(out') # {}
          \/ HasOut(out', "return", "true") /\ ~HasOut(out', "command", "trigger_shutdown")
          \/ is_on_battery /\ AcSnapshot(out', last_status')
          \/ /\ settings'.monitor_only_mode
             /\ ~HasOut(out', "emit", "ups-disconnected")
             /\ ~HasOut(out', "hid_ok", "read") ]_vars

(***************************************************************************)
(* The scheduler's two fields under interleaving, under SpecRace.          *)
(***************************************************************************)
\* both threads are between operations
AllCompleted == race.poll.pc = "idle" /\ race.cmd.pc = "idle"

\* C24: cancel versus firing under interleaving.  When cancel_shutdown runs concurrently
\* with the poll thread's process_pending_shutdown, the system action is never executed
\* for a deadline for which cancel_shutdown has returned true.
C24_CancelWins ==
    [][ SystemActions(out') # {} =>
            ~(IsSome(race.returned_true) /\ race.returned_true = race.poll.seen) ]_vars

\* C25: the schedule fields stay consistent under concurrency.  For any interleaving of
\* schedule requests and cancellations of the poll thread and the commands, once all of
\* them have completed the deadline and the reason are both present or both absent, and
\* a present reason is the one of the request that stored the current deadline.
C25_FieldsConsistent ==
    AllCompleted =>
        /\ IsSome(scheduled_shutdown_at_ms) <=> IsSome(scheduled_shutdown_reason)
        /\ IsSome(scheduled_shutdown_at_ms) => scheduled_shutdown_reason = race.setter

(***************************************************************************)
(* The device handle after a failed read, under Spec.                      *)
(***************************************************************************)
\* C31: a read failure closes the handle.  After every device read that fails with an
\* I/O error, the periodic read and the immediate read after a successful open alike,
\* the device handle is closed and the state is marked disconnected when the poll
\* iteration ends, so the next iteration rescans.
C31_ReadFailureCloses ==
    [][ HasOut(out', "ups-error", "HID read error") =>
            ~connected_device' /\ ~is_connected' ]_vars

(***************************************************************************)
(* The popup throttle, under SpecPopup.                                    *)
(***************************************************************************)
\* the popups forced in a record of what an operation did
ForcedPopups(o) == { i \in 1..Len(o) : o[i].k = "force_windows_popup" }

\* C32: popup throttle.  Under any interleaving of the callers of should_force_popup,
\* two forced popups are never less than 6 seconds apart, and no popup is forced when
\* the main window is found visible and focused.
C32_PopupThrottle ==
    [][ \A i \in ForcedPopups(out') :
            IsSome(popup.forced) =>
                \/ out'[i].b - Get(popup.forced) >= FORCED_POPUP_INTERVAL_MS
                \/ Get(popup.forced) - out'[i].b >= FORCED_POPUP_INTERVAL_MS ]_vars

(***************************************************************************)
(* The locks and the files, under SpecLocks.                               *)
(***************************************************************************)
\* the disk writes in a record of what an operation did
DiskWrites(o) == { i \in 1..Len(o) : o[i].k = "write_json_pretty" }

\* C33: lock discipline.  No thread holds a state lock while it performs a slow
\* operation; the poll thread in particular holds no latch lock while an event is logged
\* and saved to disk.
C33_NoLockAcrossSlow ==
    [][ \A i \in DiskWrites(out') : out'[i].b = 0 ]_vars

\* C34: the persisted copy matches memory.  For any interleaving of the operations that
\* modify and save the event list, once all of them have completed the content last
\* written to the file equals the list in memory.
C34_FileMatchesMemory ==
    (completed("poll") /\ completed("cmd")) => locks.events_file = events

\* thread t is at a lock() of a Mutex that is not free
Waiting(t) ==
    /\ instruction(t).kind = "acquire"
    /\ locks.owner[instruction(t).x] # "none"

\* a waiting thread waits for another thread, which is not waiting itself
NoWaitCycle ==
    \A t \in Threads :
        Waiting(t) =>
            /\ locks.owner[instruction(t).x] # t
            /\ ~Waiting(locks.owner[instruction(t).x])

\* C40: deadlock freedom.  With the poll thread and the command handlers running
\* concurrently, no execution reaches a state in which threads wait for each other's
\* state locks forever: a waiting thread never waits for itself or for a thread that
\* waits, and every lock acquisition eventually succeeds.
C40_DeadlockFree ==
    /\ []NoWaitCycle
    /\ \A t \in Threads : \A l \in StateLocks :
           (instruction(t) = acquire(l)) ~> (locks.owner[l] = t)

\* the poll thread, holding the latch's lock, waits for the events lock the command holds
C40_Witness ==
    /\ Waiting("poll")
    /\ instruction("poll").x = "events"
    /\ held("poll") = { "was_battery_low" }
    /\ held("cmd") = { "events" }

(***************************************************************************)
(* DeviceInfo across reconnects, under SpecDevice.                         *)
(***************************************************************************)
\* the fields of a DeviceInfo but the firmware
Descriptor(info) ==
    << info.manufacturer, info.product, info.vendor_id, info.product_id >>

\* C35: the firmware persists across reconnects.  Once a version packet has set the
\* firmware of DeviceInfo, every later DeviceInfo has a firmware, whatever disconnects,
\* rescans and reconnects follow; it changes only to the firmware of a version packet
\* read, and no other field of DeviceInfo changes outside a rescan.
C35_FirmwarePersists ==
    [][ IsSome(device.device_info) =>
          /\ IsSome(device'.device_info)
          /\ IsSome(Get(device.device_info).firmware) =>
                 IsSome(Get(device'.device_info).firmware)
          /\ Get(device'.device_info).firmware # Get(device.device_info).firmware =>
                 Get(device'.device_info).firmware = device'.version
          /\ Descriptor(Get(device'.device_info)) # Descriptor(Get(device.device_info)) =>
                 device'.scanned ]_vars

\* the device was rescanned after a disconnect, with another descriptor, and the
\* firmware read before is still there
C35_Witness ==
    /\ device.scanned
    /\ HasOut(out, "emit", "ups-connected")
    /\ IsSome(device.device_info)
    /\ Get(device.device_info).firmware = Some("V2.0")
    /\ Get(device.device_info).manufacturer = "ACME"
    /\ device.version = None

(***************************************************************************)
(* The end of a playback task, under SpecSoundFair.                        *)
(***************************************************************************)
\* the repetitions a running task has started and may still start
Budget(task) ==
    task.started + task.left - (IF task.pc \in {"playing", "after"} THEN 1 ELSE 0)

\* a task is spawned with between 1 and 30 repetitions, none started
C36_Spawned ==
    Len(tasks') > Len(tasks) =>
        /\ tasks'[Len(tasks')].started = 0
        /\ tasks'[Len(tasks')].left \in 1..MaxLoopCount

\* a running task keeps its budget, and ends within it
C36_WithinBudget ==
    \A i \in 1..Len(tasks) :
        tasks[i].pc # "done" =>
            IF tasks'[i].pc = "done" THEN tasks'[i].started <= Budget(tasks[i])
            ELSE Budget(tasks'[i]) = Budget(tasks[i])

\* a task whose token is stale ends at its next validity check
C36_StaleEnds ==
    \A i \in 1..Len(tasks) :
        (tasks[i].token # sound_generation /\ tasks'[i] # tasks[i]) =>
            \/ tasks'[i].pc = "done"
            \/ tasks[i].pc = "start"
            \/ tasks[i].pc = "playing" /\ tasks'[i].pc = "after"

C37_DisconnectedIsReset ==
    ~is_connected =>
        /\ ~is_on_battery
        /\ ~was_battery_low
        /\ ~was_battery_critical
        /\ battery_start_ms = None
        /\ last_status = None

\* the counter is bumped on the connected-to-disconnected edge, and get_ups_status
\* returns none while the device is not connected
C37_Edge ==
    /\ (is_connected /\ ~is_connected') => sound_generation' = sound_generation + 1
    /\ (Ran(out', "get_ups_status") /\ ~is_connected) => HasOut(out', "return", "none")

\* C37: a disconnect resets the decision state.  At the end of every poll iteration in
\* which the device is marked disconnected the on-battery, battery-low and
\* battery-critical latches are false, the battery timer and the last snapshot are none,
\* and the generation counter was bumped on the connected-to-disconnected edge; between
\* poll iterations, not connected implies no last snapshot and not on battery.
C37_DisconnectResets == []C37_DisconnectedIsReset /\ [][C37_Edge]_vars

\* a device that was connected with a shutdown pending has just been marked disconnected
C37_Witness ==
    /\ ~is_connected
    /\ HasOut(out, "log_event", "UPS disconnected")
    /\ HasOut(out, "emit", "shutdown-cancelled")
    /\ HasOut(out, "emit", "ups-disconnected")
    /\ sound_generation >= 1

(***************************************************************************)
(* The connection events, under SpecDevice.                                *)
(***************************************************************************)
\* no two neighbours of a sequence of events are the same event
Alternates(seq) == \A i \in 1..(Len(seq) - 1) : seq[i].a # seq[i + 1].a

\* C38: the connection events alternate.  In every execution the emitted ups-connected
\* and ups-disconnected events strictly alternate, never two of the same in a row, for
\* any sequence of scans, opens, read failures and HID init and refresh errors; so the
\* first ups-disconnected is emitted at most once before any connection.
C38_EventsAlternate ==
    [][ /\ Alternates(ConnectionEvents(out'))
        /\ ConnectionEvents(out') # << >> =>
               ConnectionEvents(out')[1].a # device.last_event ]_vars

\* a reconnect after a disconnect, and in the same iteration the next disconnect
C38_Witness ==
    /\ Len(ConnectionEvents(out)) = 2
    /\ ConnectionEvents(out)[1].a = "ups-connected"
    /\ device.last_event = "ups-disconnected"
    /\ sound_generation = 2

(***************************************************************************)
(* The shutdown events and the schedule, under SpecCmd.                    *)
(***************************************************************************)
\* the shutdown-scheduled and shutdown-cancelled events in a record of what an operation did
ShutdownEvents(o) ==
    { i \in 1..Len(o) : o[i].k = "emit" /\ o[i].a \in { "shutdown-scheduled", "shutdown-cancelled" } }

\* the last of them
LastShutdownEvent(o) == CHOOSE i \in ShutdownEvents(o) : \A j \in ShutdownEvents(o) : j <= i

\* what the last shutdown event of an operation says of the deadline it leaves
agrees_with_schedule(o, at_ms, deadline) ==
    ShutdownEvents(o) # {} =>
        IF o[LastShutdownEvent(o)].a = "shutdown-cancelled"
        THEN deadline = None
        ELSE deadline = Some(at_ms + o[LastShutdownEvent(o)].b)

\* C39: the event stream agrees with the schedule.  After a shutdown-cancelled event no
\* deadline is pending, and a shutdown-scheduled event is emitted only when the deadline
\* has just been set to the announced time, whoever emits the event: the scheduler,
\* disconnect, AC restore, save_settings or simulate_shutdown_flow.
C39_EventsAgree ==
    [][ agrees_with_schedule(out', now, scheduled_shutdown_at_ms') ]_vars

\* the same of every operation but simulate_shutdown_flow
C39_SchedulerEventsAgree ==
    [][ ~Ran(out', "simulate_shutdown_flow") =>
            agrees_with_schedule(out', now, scheduled_shutdown_at_ms') ]_vars

====
